---- MODULE Spec2Model ----
(***************************************************************************)
(* A model of the Summit compiler's language pipeline: the semantic        *)
(* analyzer (src/analysis) and the C code generator (src/compiler/backend). *)
(* A compilation is a pure function of the Program AST; the model draws a  *)
(* program from a bounded family, analyzes it, emits an abstract form of   *)
(* the C translation unit and, where a property is about the behaviour of  *)
(* the emitted C, executes that C step by step.                            *)
(***************************************************************************)
EXTENDS Integers, Sequences, FiniteSets, TLC

VARIABLES
    prog,      \* the Program AST handed to the analyzer
    libc,      \* TRUE iff the build links libc (hosted mode)
    phase,     \* "parsed" | "rejected" | "analyzed" | "emitted" | "running" | "halted"
    verdict,   \* "none" before analysis, then "ok" or the first error
    cout,      \* the emitted C translation unit (abstract), or NoC
    rt         \* the state of the emitted C while it executes, or NoRt

vars == <<prog, libc, phase, verdict, cout, rt>>

(***************************************************************************)
(* Integer literals.  A literal is a u128 magnitude.  The model keeps the  *)
(* magnitudes that sit on a type boundary: <<e, d>> stands for 2^e + d     *)
(* with d \in {-1, 0}, so <<7, -1>> is 127 and <<8, 0>> is 256.  The order *)
(* on these pairs is the order of the numbers they stand for.              *)
(***************************************************************************)
Exps == {0, 7, 8, 15, 16, 31, 32, 63, 64, 127, 128}

LitValues == {<<e, d>> : e \in Exps, d \in {-1, 0}} \ {<<128, 0>>}

LitLE(a, b) == a[1] < b[1] \/ (a[1] = b[1] /\ a[2] <= b[2])

LitGT(a, b) == ~LitLE(a, b)

Zero == <<0, -1>>

One == <<0, 0>>

SignedTypes == {"i8", "i16", "i32", "i64", "i128"}

UnsignedTypes == {"u8", "u16", "u32", "u64", "u128"}

IntTypes == SignedTypes \cup UnsignedTypes

(* type_checker_utils.rs: is_signed, starts_with('i'); no other type name   *)
(* of the model starts with an i                                           *)
is_signed(t) == t \in {"i8", "i16", "i32", "i64", "i128"}

(* type_checker_utils.rs: get_type_size *)
get_type_size(t) ==
    CASE t = "bool" -> 8
      [] t \in {"i8", "u8"} -> 8
      [] t \in {"i16", "u16"} -> 16
      [] t \in {"i32", "u32"} -> 32
      [] t \in {"i64", "u64"} -> 64
      [] t \in {"i128", "u128"} -> 128
      [] OTHER -> 64

(* i8::MAX .. u128::MAX as used by the bounds checker and the inference *)
TypeMax(t) ==
    CASE t = "i8" -> <<7, -1>>
      [] t = "u8" -> <<8, -1>>
      [] t = "i16" -> <<15, -1>>
      [] t = "u16" -> <<16, -1>>
      [] t = "i32" -> <<31, -1>>
      [] t = "u32" -> <<32, -1>>
      [] t = "i64" -> <<63, -1>>
      [] t = "u64" -> <<64, -1>>
      [] t = "i128" -> <<127, -1>>
      [] t = "u128" -> <<128, -1>>

(* type_checker_utils.rs: get_unsigned_max; 0 for every other type *)
get_unsigned_max(t) ==
    CASE t = "bool" -> One
      [] t \in UnsignedTypes -> TypeMax(t)
      [] OTHER -> Zero

(* type_checker_utils.rs: wider_type *)
wider_type(t1, t2) ==
    IF get_type_size(t1) > get_type_size(t2) THEN t1
    ELSE IF get_type_size(t2) > get_type_size(t1) THEN t2
    ELSE IF is_signed(t1) THEN t1 ELSE t2

(* type_conversion.rs: can_convert.  The table lists every pair of integer   *)
(* types of the same signedness whose first is narrower than the second.   *)
can_convert(from, to) ==
    \/ /\ from \in SignedTypes /\ to \in SignedTypes
       /\ get_type_size(from) < get_type_size(to)
    \/ /\ from \in UnsignedTypes /\ to \in UnsignedTypes
       /\ get_type_size(from) < get_type_size(to)

(* would_truncate with the size comparison removed: no conversion is ever   *)
(* reported as truncating.                                                 *)
would_truncate_never(from, to) ==
    /\ from \in IntTypes
    /\ to \in IntTypes
    /\ FALSE

(* type_conversion.rs: would_truncate *)
would_truncate(from, to) ==
    /\ from \in IntTypes
    /\ to \in IntTypes
    /\ get_type_size(from) > get_type_size(to)

(* type_compatibility.rs: types_compatible *)
types_compatible(t1, t2) ==
    \/ t1 = t2
    \/ (t1 \in IntTypes /\ t2 \in IntTypes)

(***************************************************************************)
(* Expressions of the AST (frontend/ast/expressions.rs).                   *)
(***************************************************************************)
IntLit(v) == [k |-> "int", v |-> v]

BoolLit == [k |-> "bool"]

StrLit(holes) == [k |-> "str", holes |-> holes]   \* holes: number of "{}" in it

Var(n) == [k |-> "var", n |-> n]

Un(op, a) == [k |-> "un", op |-> op, a |-> a]

Bin(op, l, r) == [k |-> "bin", op |-> op, l |-> l, r |-> r]

Call(path, targs, args) == [k |-> "call", path |-> path, targs |-> targs, args |-> args]

IfExpr(c, t, e) == [k |-> "ifx", c |-> c, t |-> t, e |-> e]

(* cases: a sequence of WhenExprCase, [pattern, result] *)
WhenExpr(value, cases, else_expr) ==
    [k |-> "whenx", value |-> value, cases |-> cases, else_expr |-> else_expr]

WhenExprCase(pattern, result) == [pattern |-> pattern, result |-> result]

(* fields: a sequence of StructFieldInit, [name, value] *)
StructInit(struct_name, fields) ==
    [k |-> "sinit", struct_name |-> struct_name, fields |-> fields]

StructFieldInit(name, value) == [name |-> name, value |-> value]

FieldAccess(object, field) == [k |-> "field", object |-> object, field |-> field]

CompareOps == {"eq", "ne", "lt", "gt", "le", "ge", "and", "or"}

ArithOps == {"add", "sub", "mul", "div", "mod"}

(* io_path_matcher.rs: matches_io_function *)
matches_io_function(path, f) ==
    \/ (Len(path) = 2 /\ path[1] = "io" /\ path[2] = f)
    \/ (Len(path) = 3 /\ path[1] = "std" /\ path[2] = "io" /\ path[3] = f)

is_read(path) == matches_io_function(path, "read")

is_readln(path) == matches_io_function(path, "readln")

is_print(path) == matches_io_function(path, "print")

is_println(path) == matches_io_function(path, "println")

(* type_checker_utils.rs: get_literal_value; NoLit stands for None *)
NoLit == <<-1, -1>>

get_literal_value(e) == IF e.k = "int" THEN e.v ELSE NoLit

(***************************************************************************)
(* analysis/type_checker/type_inference.rs                                 *)
(***************************************************************************)
\* infer_int_literal_type with < for <= in its first comparison
infer_int_literal_type_strict(v) ==
    IF LitLE(v, TypeMax("i8")) /\ v # TypeMax("i8") THEN "i8"
    ELSE IF LitLE(v, TypeMax("u8")) /\ LitLE(v, TypeMax("i16")) THEN "u8"
    ELSE IF LitLE(v, TypeMax("i16")) THEN "i16"
    ELSE IF LitLE(v, TypeMax("u16")) /\ LitLE(v, TypeMax("i32")) THEN "u16"
    ELSE IF LitLE(v, TypeMax("i32")) THEN "i32"
    ELSE IF LitLE(v, TypeMax("u32")) /\ LitLE(v, TypeMax("i64")) THEN "u32"
    ELSE IF LitLE(v, TypeMax("i64")) THEN "i64"
    ELSE IF LitLE(v, TypeMax("u64")) THEN "u64"
    ELSE IF LitLE(v, TypeMax("i128")) THEN "i128"
    ELSE "u128"

infer_int_literal_type(v) ==
    IF LitLE(v, TypeMax("i8")) THEN "i8"
    ELSE IF LitLE(v, TypeMax("u8")) /\ LitLE(v, TypeMax("i16")) THEN "u8"
    ELSE IF LitLE(v, TypeMax("i16")) THEN "i16"
    ELSE IF LitLE(v, TypeMax("u16")) /\ LitLE(v, TypeMax("i32")) THEN "u16"
    ELSE IF LitLE(v, TypeMax("i32")) THEN "i32"
    ELSE IF LitLE(v, TypeMax("u32")) /\ LitLE(v, TypeMax("i64")) THEN "u32"
    ELSE IF LitLE(v, TypeMax("i64")) THEN "i64"
    ELSE IF LitLE(v, TypeMax("u64")) THEN "u64"
    ELSE IF LitLE(v, TypeMax("i128")) THEN "i128"
    ELSE "u128"

infer_call_type(path, targs, functions) ==
    IF is_readln(path) THEN "str"
    ELSE IF is_read(path)
         THEN (IF Len(targs) = 1 THEN targs[1] ELSE "!io::read requires a type parameter")
    ELSE IF Len(path) = 1
         THEN (IF path[1] \in DOMAIN functions
               THEN functions[path[1]].return_type ELSE "i64")
    ELSE "i64"

(* the Err results of infer_type *)
InferErrors == {"!Undefined variable", "!io::read requires a type parameter"}

(* wider_type of two inferred types, or the first Err of the two *)
wider_or_err(t1, t2) ==
    IF t1 \in InferErrors THEN t1
    ELSE IF t2 \in InferErrors THEN t2
    ELSE wider_type(t1, t2)

RECURSIVE infer_type(_, _, _)
infer_type(e, scope, functions) ==
    CASE e.k = "int" -> infer_int_literal_type(e.v)
      [] e.k = "bool" -> "bool"
      [] e.k = "str" -> "str"
      [] e.k = "null" -> "void*"
      [] e.k = "var" ->
            IF e.n \in DOMAIN scope THEN scope[e.n] ELSE "!Undefined variable"
      [] e.k = "call" -> infer_call_type(e.path, e.targs, functions)
      [] e.k = "bin" ->
            IF e.op \in CompareOps THEN "bool"
            ELSE wider_or_err(infer_type(e.l, scope, functions),
                              infer_type(e.r, scope, functions))
      [] e.k = "un" ->
            IF e.op = "neg" THEN infer_type(e.a, scope, functions) ELSE "bool"
      [] e.k = "ifx" ->
            wider_or_err(infer_type(e.t, scope, functions),
                         infer_type(e.e, scope, functions))


(***************************************************************************)
(* analysis/type_checker/bounds_checker.rs                                 *)
(***************************************************************************)
check_literal_bounds(v, t) ==
    CASE t = "bool" -> IF LitGT(v, One) THEN "BoundsError: not 0 or 1" ELSE "ok"
      [] t \in IntTypes \ {"u128"} ->
            IF LitGT(v, TypeMax(t)) THEN "BoundsError: exceeds maximum" ELSE "ok"
      [] OTHER -> "ok"

(* 128, 32768, 2147483648, ... : the magnitude of MIN(t) is 2^(bits-1) *)
NegLimit(t) == <<get_type_size(t) - 1, 0>>

check_negative_literal_bounds(operand, t) ==
    IF operand.k = "int"
    THEN CASE t \in SignedTypes ->
                IF LitGT(operand.v, NegLimit(t)) THEN "BoundsError: out of bounds" ELSE "ok"
           [] t \in UnsignedTypes -> "BoundsError: negative to unsigned"
           [] OTHER -> "ok"
    ELSE "ok"

check_expression_bounds(e, t) ==
    CASE e.k = "int" -> check_literal_bounds(e.v, t)
      [] e.k = "bool" ->
            IF t # "bool" THEN "BoundsError: boolean literal" ELSE "ok"
      [] e.k = "un" /\ e.op = "neg" -> check_negative_literal_bounds(e.a, t)
      [] OTHER -> "ok"

(***************************************************************************)
(* analysis/type_checker/type_compatibility.rs                             *)
(***************************************************************************)
check_type_compatibility(expected, actual, e) ==
    IF ~types_compatible(expected, actual)
    THEN IF can_convert(actual, expected)
         THEN IF is_signed(actual) /\ ~is_signed(expected)
              THEN IF get_literal_value(e) # NoLit
                   THEN IF LitGT(get_literal_value(e), get_unsigned_max(expected))
                        THEN "TypeError: signed value exceeds unsigned maximum"
                        ELSE "ok"
                   ELSE "TypeError: signed to unsigned without cast"
              ELSE "ok"
         ELSE "TypeError: type mismatch"
    ELSE "ok"

(* Result<(), String> chaining with `?`: the first error wins *)
Then(r, next) == IF r = "ok" THEN next ELSE r

(* the Err of infer_type(..)? as the error of the caller *)
TypeOk(t) == IF t \in InferErrors THEN t ELSE "ok"

(***************************************************************************)
(* analysis/semantics/module_checker.rs                                    *)
(***************************************************************************)
check_module_import(path, imports) ==
    LET found2 == Len(path) = 2 /\ (<<"std", path[1]>> \in imports \/ <<path[1]>> \in imports)
        found3 == Len(path) = 3 /\ (<<path[1]>> \in imports \/ <<path[1], path[2]>> \in imports)
        foundN == \E i \in 1..(Len(path) - 1) : SubSeq(path, 1, i) \in imports
    IN  IF found2 \/ found3 \/ foundN THEN "ok" ELSE "NameError: module not imported"

is_valid_read_type(t) == t \in {"i8", "u8", "i16", "u16", "i32", "u32", "i64", "u64"}

is_integer_type(t) == t \in {"i8", "i16", "i32", "i64", "i128", "u8", "u16", "u32", "u64", "u128"}

(***************************************************************************)
(* analysis/semantics/expression_analyzer.rs.  A is the analyzer: its side *)
(* tables imported_modules, functions, structs, global_scope and           *)
(* global_mutability.                                                      *)
(***************************************************************************)
(* one argument of check_local_func_call against its parameter type *)
check_call_arg(arg, arg_type, param_type) ==
    IF arg_type \in InferErrors THEN arg_type
    ELSE IF arg_type = param_type THEN "ok"
    ELSE IF can_convert(arg_type, param_type) THEN "ok"
    ELSE IF /\ is_signed(arg_type) /\ ~is_signed(param_type)
            /\ get_type_size(arg_type) < get_type_size(param_type)
         THEN IF get_literal_value(arg) # NoLit
                 /\ LitGT(get_literal_value(arg), get_unsigned_max(param_type))
              THEN "TypeError: value exceeds unsigned maximum"
              ELSE "ok"
    ELSE IF /\ ~is_signed(arg_type) /\ is_signed(param_type)
            /\ get_type_size(arg_type) < get_type_size(param_type)
         THEN "ok"
    ELSE IF would_truncate(arg_type, param_type) THEN "TypeError: would truncate"
    ELSE IF ~types_compatible(arg_type, param_type) THEN "TypeError: argument type mismatch"
    ELSE "TypeError: same size but different signedness"

RECURSIVE check_call_args(_, _, _, _, _)
check_call_args(args, params, i, scope, A) ==
    IF i > Len(args) \/ i > Len(params) THEN "ok"
    ELSE Then(check_call_arg(args[i], infer_type(args[i], scope, A.functions),
                             params[i].param_type),
              check_call_args(args, params, i + 1, scope, A))

check_local_func_call(path, args, scope, A) ==
    IF path[1] \notin DOMAIN A.functions THEN "NameError: undefined function"
    ELSE LET func == A.functions[path[1]]
         IN  IF func.has_varargs /\ Len(args) < Len(func.params)
             THEN "TypeError: too few arguments"
             ELSE IF ~func.has_varargs /\ Len(args) # Len(func.params)
             THEN "TypeError: wrong number of arguments"
             ELSE check_call_args(args, func.params, 1, scope, A)

(* the two operand (or branch) types of a Binary (or IfExpr) *)
check_operand_types(t1, t2) ==
    Then(TypeOk(t1), Then(TypeOk(t2),
         IF ~types_compatible(t1, t2) THEN "TypeError: operand type mismatch" ELSE "ok"))

RECURSIVE analyze_expr(_, _, _)
RECURSIVE analyze_exprs(_, _, _, _)
analyze_exprs(es, i, scope, A) ==
    IF i > Len(es) THEN "ok"
    ELSE Then(analyze_expr(es[i], scope, A), analyze_exprs(es, i + 1, scope, A))

analyze_expr(e, scope, A) ==
    CASE e.k \in {"int", "str", "bool", "null"} -> "ok"
      [] e.k = "var" ->
            IF e.n \notin DOMAIN scope THEN "NameError: undefined variable" ELSE "ok"
      [] e.k = "call" ->
            IF is_read(e.path)
            THEN IF Len(e.targs) = 0 THEN "TypeError: io::read requires a type parameter"
                 ELSE IF Len(e.targs) # 1 THEN "TypeError: io::read one type parameter"
                 ELSE IF ~is_valid_read_type(e.targs[1]) THEN "TypeError: io::read type"
                 ELSE IF Len(e.args) # 0 THEN "TypeError: io::read takes no arguments"
                 ELSE "ok"
            ELSE IF is_readln(e.path)
            THEN IF Len(e.targs) # 0 THEN "TypeError: io::readln type parameters"
                 ELSE IF Len(e.args) # 0 THEN "TypeError: io::readln takes no arguments"
                 ELSE "ok"
            ELSE Then(IF Len(e.path) >= 2 THEN check_module_import(e.path, A.imported_modules)
                      ELSE check_local_func_call(e.path, e.args, scope, A),
                      analyze_exprs(e.args, 1, scope, A))
      [] e.k = "bin" ->
            Then(analyze_expr(e.l, scope, A),
            Then(analyze_expr(e.r, scope, A),
                 check_operand_types(infer_type(e.l, scope, A.functions),
                                     infer_type(e.r, scope, A.functions))))
      [] e.k = "un" -> analyze_expr(e.a, scope, A)
      [] e.k = "ifx" ->
            Then(analyze_expr(e.c, scope, A),
            Then(analyze_expr(e.t, scope, A),
            Then(analyze_expr(e.e, scope, A),
                 check_operand_types(infer_type(e.t, scope, A.functions),
                                     infer_type(e.e, scope, A.functions)))))

(***************************************************************************)
(* Statements of the AST (frontend/ast/statements.rs).  A block is a       *)
(* sequence of statements; an absent else block is hasElse = FALSE.        *)
(***************************************************************************)
VarS(n, t, e) == [k |-> "var", n |-> n, t |-> t, e |-> e]        \* t = "" : no annotation

ConstS(n, t, e) == [k |-> "const", n |-> n, t |-> t, e |-> e]

ComptimeS(n, t, e) == [k |-> "comptime", n |-> n, t |-> t, e |-> e]

Assign(n, e) == [k |-> "assign", n |-> n, e |-> e]

FieldAssign(n, f, e) == [k |-> "fassign", n |-> n, f |-> f, e |-> e]   \* f: the field path

Return(e) == [k |-> "ret", e |-> e]

ExprS(e) == [k |-> "expr", e |-> e]

If(c, th, eifs, hasElse, el) ==
    [k |-> "if", c |-> c, th |-> th, eifs |-> eifs, hasElse |-> hasElse, el |-> el]

While(c, body) == [k |-> "while", c |-> c, body |-> body]

For(n, start, end, body) ==
    [k |-> "for", n |-> n, start |-> start, end |-> end, inclusive |-> FALSE, hasStep |-> FALSE,
     step |-> IntLit(One), hasFilter |-> FALSE, filter |-> BoolLit, body |-> body]

When(v, cases, hasElse, el) ==
    [k |-> "when", v |-> v, cases |-> cases, hasElse |-> hasElse, el |-> el]

(* Statement::Expect; pattern is a WhenPattern-shaped ExpectPattern *)
Expect(c, hasPattern, pattern, el) ==
    [k |-> "expect", c |-> c, hasPattern |-> hasPattern, pattern |-> pattern, el |-> el]

Single(e) == [k |-> "single", e |-> e]

Range(start, end) ==                                   \* start to end
    [k |-> "range", start |-> start, end |-> end, inclusive |-> FALSE]

Through(start, end) ==                                 \* start through end
    [k |-> "range", start |-> start, end |-> end, inclusive |-> TRUE]

Case(pat, body) == [pat |-> pat, body |-> body]

Fallthrough == [k |-> "fallthrough"]

(* HashMap::insert *)
Put(m, key, val) == [x \in DOMAIN m \cup {key} |-> IF x = key THEN val ELSE m[x]]

EmptyMap == [x \in {} |-> ""]

(* compile_time_checker.rs: is_compile_time_evaluable *)
RECURSIVE is_compile_time_evaluable(_)
is_compile_time_evaluable(e) ==
    CASE e.k \in {"int", "str", "bool", "null", "var"} -> TRUE
      [] e.k = "un" -> is_compile_time_evaluable(e.a)
      [] e.k = "bin" -> is_compile_time_evaluable(e.l) /\ is_compile_time_evaluable(e.r)
      [] e.k = "ifx" -> /\ is_compile_time_evaluable(e.c)
                        /\ is_compile_time_evaluable(e.t)
                        /\ is_compile_time_evaluable(e.e)
      [] e.k = "call" -> FALSE

(* is_compile_time_constant whose StructInit arm does not look at the      *)
(* field values                                                            *)
RECURSIVE is_compile_time_constant_shallow(_, _)
is_compile_time_constant_shallow(e, global_scope) ==
    CASE e.k \in {"int", "str", "bool", "null"} -> TRUE
      [] e.k = "var" -> e.n \in DOMAIN global_scope
      [] e.k = "un" -> is_compile_time_constant_shallow(e.a, global_scope)
      [] e.k = "bin" -> /\ is_compile_time_constant_shallow(e.l, global_scope)
                        /\ is_compile_time_constant_shallow(e.r, global_scope)
      [] e.k = "ifx" -> /\ is_compile_time_constant_shallow(e.c, global_scope)
                        /\ is_compile_time_constant_shallow(e.t, global_scope)
                        /\ is_compile_time_constant_shallow(e.e, global_scope)
      [] e.k = "whenx" ->
            /\ is_compile_time_constant_shallow(e.value, global_scope)
            /\ \A i \in DOMAIN e.cases :
                  /\ IF e.cases[i].pattern.k = "single"
                     THEN is_compile_time_constant_shallow(e.cases[i].pattern.e, global_scope)
                     ELSE /\ is_compile_time_constant_shallow(e.cases[i].pattern.start, global_scope)
                          /\ is_compile_time_constant_shallow(e.cases[i].pattern.end, global_scope)
                  /\ is_compile_time_constant_shallow(e.cases[i].result, global_scope)
            /\ is_compile_time_constant_shallow(e.else_expr, global_scope)
      [] e.k = "sinit" -> TRUE
      [] e.k = "field" -> is_compile_time_constant_shallow(e.object, global_scope)
      [] e.k = "call" -> FALSE

(* compile_time_checker.rs: is_compile_time_constant *)
RECURSIVE is_compile_time_constant(_, _)
is_compile_time_constant(e, global_scope) ==
    CASE e.k \in {"int", "str", "bool", "null"} -> TRUE
      [] e.k = "var" -> e.n \in DOMAIN global_scope
      [] e.k = "un" -> is_compile_time_constant(e.a, global_scope)
      [] e.k = "bin" -> /\ is_compile_time_constant(e.l, global_scope)
                        /\ is_compile_time_constant(e.r, global_scope)
      [] e.k = "ifx" -> /\ is_compile_time_constant(e.c, global_scope)
                        /\ is_compile_time_constant(e.t, global_scope)
                        /\ is_compile_time_constant(e.e, global_scope)
      [] e.k = "whenx" ->
            /\ is_compile_time_constant(e.value, global_scope)
            /\ \A i \in DOMAIN e.cases :
                  /\ IF e.cases[i].pattern.k = "single"
                     THEN is_compile_time_constant(e.cases[i].pattern.e, global_scope)
                     ELSE /\ is_compile_time_constant(e.cases[i].pattern.start, global_scope)
                          /\ is_compile_time_constant(e.cases[i].pattern.end, global_scope)
                  /\ is_compile_time_constant(e.cases[i].result, global_scope)
            /\ is_compile_time_constant(e.else_expr, global_scope)
      [] e.k = "sinit" ->
            \A i \in DOMAIN e.fields :
                is_compile_time_constant(e.fields[i].value, global_scope)
      [] e.k = "field" -> is_compile_time_constant(e.object, global_scope)
      [] e.k = "call" -> FALSE

(***************************************************************************)
(* analysis/semantics/statement_analyzer.rs.  S = [r, scope, mut] is the   *)
(* Result so far with the scope and mutability maps the statement is       *)
(* handed by &mut.                                                         *)
(***************************************************************************)
Fail(S, err) == [S EXCEPT !.r = err]

(* the explicit-type arm of Var / Const / Comptime: the io::read check *)
read_type_check(explicit, e) ==
    IF e.k = "call" /\ is_read(e.path) /\ Len(e.targs) = 1 /\ explicit # e.targs[1]
    THEN "TypeError: io::read returns another type" ELSE "ok"

(* the checks of a declaration once its value is analyzed and its type    *)
(* inferred                                                                *)
check_decl(stmt, inferred) ==
    Then(TypeOk(inferred),
         IF stmt.t # ""
         THEN Then(read_type_check(stmt.t, stmt.e),
              Then(check_type_compatibility(stmt.t, inferred, stmt.e),
                   check_expression_bounds(stmt.e, stmt.t)))
         ELSE check_expression_bounds(stmt.e, inferred))

(* scope.insert and mutability.insert, reached only after every `?` passed *)
declare(stmt, S, r, inferred, is_mutable) ==
    IF r # "ok" THEN Fail(S, r)
    ELSE [r |-> "ok",
          scope |-> Put(S.scope, stmt.n, IF stmt.t # "" THEN stmt.t ELSE inferred),
          mut |-> Put(S.mut, stmt.n, is_mutable)]

(* Statement::Var / Const / Comptime of analyze_stmt *)
analyze_decl(stmt, S, A, is_mutable) ==
    declare(stmt, S,
            Then(IF stmt.k = "comptime" /\ ~is_compile_time_evaluable(stmt.e)
                 THEN "Comptime must be evaluable at compile time" ELSE "ok",
            Then(analyze_expr(stmt.e, S.scope, A),
                 check_decl(stmt, infer_type(stmt.e, S.scope, A.functions)))),
            infer_type(stmt.e, S.scope, A.functions), is_mutable)

(* mutability.get(name).or_else(|| global_mutability.get(name)).unwrap_or(false) *)
is_mutable_name(name, S, A) ==
    IF name \in DOMAIN S.mut THEN S.mut[name]
    ELSE IF name \in DOMAIN A.global_mutability THEN A.global_mutability[name]
    ELSE FALSE

(* the value of an Assign or FieldAssign against the type of its target *)
check_store(target_type, value_type, e) ==
    Then(TypeOk(value_type), check_type_compatibility(target_type, value_type, e))

(* Statement::Assign of analyze_stmt *)
analyze_assign(stmt, S, A) ==
    IF stmt.n \notin DOMAIN S.scope THEN Fail(S, "Cannot assign to undefined variable")
    ELSE IF ~is_mutable_name(stmt.n, S, A) THEN Fail(S, "Cannot assign to immutable variable")
    ELSE Fail(S, Then(analyze_expr(stmt.e, S.scope, A),
                      check_store(S.scope[stmt.n],
                                  infer_type(stmt.e, S.scope, A.functions), stmt.e)))

(* the type of the field path f below a value of type t, or an error *)
RECURSIVE field_path_type(_, _, _, _)
field_path_type(t, f, i, structs) ==
    IF i > Len(f) THEN t
    ELSE IF t \notin DOMAIN structs THEN "!Cannot access field on non-struct type"
    ELSE IF \E j \in 1..Len(structs[t].fields) : structs[t].fields[j].name = f[i]
         THEN LET j == CHOOSE j \in 1..Len(structs[t].fields) :
                         /\ structs[t].fields[j].name = f[i]
                         /\ \A h \in 1..(j - 1) : structs[t].fields[h].name # f[i]
              IN  field_path_type(structs[t].fields[j].field_type, f, i + 1, structs)
         ELSE "!Field not found in struct"

FieldErrors == {"!Cannot access field on non-struct type", "!Field not found in struct"}

FieldOk(t) == IF t \in FieldErrors THEN t ELSE "ok"

(* Statement::FieldAssign of analyze_stmt *)
analyze_field_assign(stmt, S, A) ==
    IF stmt.n \notin DOMAIN S.scope
    THEN Fail(S, "Cannot assign to field of undefined variable")
    ELSE IF ~is_mutable_name(stmt.n, S, A)
    THEN Fail(S, "Cannot assign to field of immutable variable")
    ELSE Fail(S, Then(FieldOk(field_path_type(S.scope[stmt.n], stmt.f, 1, A.structs)),
                 Then(analyze_expr(stmt.e, S.scope, A),
                      check_store(field_path_type(S.scope[stmt.n], stmt.f, 1, A.structs),
                                  infer_type(stmt.e, S.scope, A.functions), stmt.e))))

(* the arms of Statement::Return after the type of the value is inferred *)
return_rule(e, actual, expected) ==
    IF actual \in InferErrors THEN actual
    ELSE IF actual = expected THEN "ok"
    ELSE IF can_convert(actual, expected) THEN "ok"
    ELSE IF /\ is_signed(actual) /\ ~is_signed(expected)
            /\ get_type_size(actual) < get_type_size(expected)
         THEN IF get_literal_value(e) # NoLit
                 /\ LitGT(get_literal_value(e), get_unsigned_max(expected))
              THEN "TypeError: cannot return value (exceeds maximum)"
              ELSE "ok"
    ELSE IF /\ ~is_signed(actual) /\ is_signed(expected)
            /\ get_type_size(actual) < get_type_size(expected)
         THEN "ok"
    ELSE IF would_truncate(actual, expected) THEN "TypeError: return would lose data"
    ELSE IF ~types_compatible(actual, expected) THEN "TypeError: return type mismatch"
    ELSE "TypeError: return same size but different signedness"

(* Statement::Return of analyze_stmt_with_return_type *)
check_return(e, expected, scope, A) ==
    Then(analyze_expr(e, scope, A),
         return_rule(e, infer_type(e, scope, A.functions), expected))

(* the type of a When pattern bound against the type of the matched value *)
pattern_type_ok(value_type, t, err) ==
    Then(TypeOk(t), IF ~types_compatible(value_type, t) THEN err ELSE "ok")

(* a When case pattern against the type of the matched value.  The source  *)
(* infers both bounds of a range before it compares either: an Err of the  *)
(* end bound comes before a mismatch of the start bound.                   *)
check_when_pattern(pat, value_type, scope, A) ==
    IF pat.k = "single"
    THEN Then(analyze_expr(pat.e, scope, A),
              pattern_type_ok(value_type, infer_type(pat.e, scope, A.functions),
                              "TypeError: when pattern incompatible"))
    ELSE Then(analyze_expr(pat.start, scope, A),
         Then(analyze_expr(pat.end, scope, A),
         Then(TypeOk(infer_type(pat.end, scope, A.functions)),
         Then(pattern_type_ok(value_type, infer_type(pat.start, scope, A.functions),
                              "TypeError: when range start incompatible"),
              pattern_type_ok(value_type, infer_type(pat.end, scope, A.functions),
                              "TypeError: when range end incompatible")))))

(* A mode is how a statement is analyzed: Plain is analyze_stmt, Typed(R)  *)
(* is analyze_stmt_with_return_type with expected_return_type R.  The two  *)
(* functions differ in the Return arm and in the integer checks of For.    *)
Plain == [typed |-> FALSE, R |-> ""]

Typed(R) == [typed |-> TRUE, R |-> R]

(* Statement::For: the types of the bounds; analyze_stmt requires integers *)
for_bound_types(start_type, end_type, mode) ==
    Then(TypeOk(start_type), Then(TypeOk(end_type),
         IF mode.typed THEN "ok"
         ELSE IF ~is_integer_type(start_type) THEN "TypeError: for start not an integer"
         ELSE IF ~is_integer_type(end_type) THEN "TypeError: for end not an integer"
         ELSE "ok"))

(* Statement::For: analyze_stmt infers the type of the step and requires   *)
(* an integer, analyze_stmt_with_return_type does not look at it           *)
for_step_type(step_type, mode) ==
    IF mode.typed THEN "ok"
    ELSE Then(TypeOk(step_type),
              IF ~is_integer_type(step_type) THEN "TypeError: for step not an integer"
              ELSE "ok")

(* Statement::For: the clones the body runs on, with the loop variable     *)
(* inserted immutable                                                      *)
for_body_state(stmt, S, start_type, end_type) ==
    [r |-> "ok",
     scope |-> Put(S.scope, stmt.n, wider_type(start_type, end_type)),
     mut |-> Put(S.mut, stmt.n, FALSE)]

RECURSIVE analyze_stmt_mode(_, _, _, _)
RECURSIVE analyze_block(_, _, _, _, _)
RECURSIVE analyze_elseifs(_, _, _, _, _)
RECURSIVE analyze_cases(_, _, _, _, _, _)

(* analyze_block that analyses the body of a while on the scope and        *)
(* mutability of the enclosing block instead of on clones                  *)
RECURSIVE analyze_block_shared(_, _, _, _, _)
analyze_block_shared(stmts, i, S, A, mode) ==
    IF i > Len(stmts) \/ S.r # "ok" THEN S
    ELSE analyze_block_shared(stmts, i + 1,
             IF stmts[i].k = "while"
             THEN analyze_block_shared(stmts[i].body, 1, S, A, mode)
             ELSE analyze_stmt_mode(stmts[i], S, A, mode), A, mode)

(* for stmt in block { analyze(stmt, scope, mutability)? } *)
analyze_block(stmts, i, S, A, mode) ==
    IF i > Len(stmts) \/ S.r # "ok" THEN S
    ELSE analyze_block(stmts, i + 1, analyze_stmt_mode(stmts[i], S, A, mode), A, mode)

(* a child block runs on clones of scope and mutability: only its Result   *)
(* reaches the enclosing statement                                         *)
child_block(stmts, S, A, mode) == analyze_block(stmts, 1, S, A, mode).r

analyze_elseifs(eifs, i, S, A, mode) ==
    IF i > Len(eifs) THEN "ok"
    ELSE Then(analyze_expr(eifs[i].c, S.scope, A),
         Then(child_block(eifs[i].body, S, A, mode),
              analyze_elseifs(eifs, i + 1, S, A, mode)))

analyze_cases(cases, i, value_type, S, A, mode) ==
    IF i > Len(cases) THEN "ok"
    ELSE Then(check_when_pattern(cases[i].pat, value_type, S.scope, A),
         Then(child_block(cases[i].body, S, A, mode),
              analyze_cases(cases, i + 1, value_type, S, A, mode)))

(* Statement::For: the filter and the body, in the body's scope *)
for_body(stmt, body_S, A, mode) ==
    Then(IF stmt.hasFilter THEN analyze_expr(stmt.filter, body_S.scope, A) ELSE "ok",
         child_block(stmt.body, body_S, A, mode))

(* Statement::Expect: the pattern against the type of the condition *)
expect_pattern(pattern, condition_type, scope, A) ==
    Then(TypeOk(condition_type),
         IF pattern.k = "single"
         THEN Then(analyze_expr(pattern.e, scope, A),
              Then(TypeOk(infer_type(pattern.e, scope, A.functions)),
                   IF ~types_compatible(condition_type, infer_type(pattern.e, scope, A.functions))
                   THEN "TypeError: expect pattern type" ELSE "ok"))
         ELSE Then(analyze_expr(pattern.start, scope, A),
              Then(analyze_expr(pattern.end, scope, A),
              Then(TypeOk(infer_type(pattern.start, scope, A.functions)),
              Then(TypeOk(infer_type(pattern.end, scope, A.functions)),
                   IF ~types_compatible(condition_type,
                                        infer_type(pattern.start, scope, A.functions))
                   THEN "TypeError: expect range start type"
                   ELSE IF ~types_compatible(condition_type,
                                             infer_type(pattern.end, scope, A.functions))
                   THEN "TypeError: expect range end type" ELSE "ok")))))

analyze_stmt_mode(stmt, S, A, mode) ==
    CASE stmt.k = "var" -> analyze_decl(stmt, S, A, TRUE)
      [] stmt.k \in {"const", "comptime"} -> analyze_decl(stmt, S, A, FALSE)
      [] stmt.k = "assign" -> analyze_assign(stmt, S, A)
      [] stmt.k = "fassign" -> analyze_field_assign(stmt, S, A)
      [] stmt.k = "expr" -> Fail(S, analyze_expr(stmt.e, S.scope, A))
      [] stmt.k = "ret" ->
            IF mode.typed THEN Fail(S, check_return(stmt.e, mode.R, S.scope, A))
            ELSE Fail(S, analyze_expr(stmt.e, S.scope, A))
      [] stmt.k = "if" ->
            Fail(S, Then(analyze_expr(stmt.c, S.scope, A),
                    Then(child_block(stmt.th, S, A, mode),
                    Then(analyze_elseifs(stmt.eifs, 1, S, A, mode),
                         IF stmt.hasElse THEN child_block(stmt.el, S, A, mode) ELSE "ok"))))
      [] stmt.k = "while" ->
            Fail(S, Then(analyze_expr(stmt.c, S.scope, A),
                         child_block(stmt.body, S, A, mode)))
      [] stmt.k = "for" ->
            Fail(S,
                Then(analyze_expr(stmt.start, S.scope, A),
                Then(analyze_expr(stmt.end, S.scope, A),
                Then(for_bound_types(infer_type(stmt.start, S.scope, A.functions),
                                     infer_type(stmt.end, S.scope, A.functions), mode),
                Then(IF stmt.hasStep
                     THEN Then(analyze_expr(stmt.step, S.scope, A),
                               for_step_type(infer_type(stmt.step, S.scope, A.functions), mode))
                     ELSE "ok",
                     for_body(stmt, for_body_state(stmt, S,
                                  infer_type(stmt.start, S.scope, A.functions),
                                  infer_type(stmt.end, S.scope, A.functions)),
                              A, mode))))))
      [] stmt.k = "when" ->
            Fail(S, Then(analyze_expr(stmt.v, S.scope, A),
                    Then(TypeOk(infer_type(stmt.v, S.scope, A.functions)),
                    Then(analyze_cases(stmt.cases, 1, infer_type(stmt.v, S.scope, A.functions),
                                       S, A, mode),
                         IF stmt.hasElse THEN child_block(stmt.el, S, A, mode) ELSE "ok"))))
      [] stmt.k = "expect" ->
            Fail(S, Then(analyze_expr(stmt.c, S.scope, A),
                    Then(IF stmt.hasPattern
                         THEN expect_pattern(stmt.pattern,
                                  infer_type(stmt.c, S.scope, A.functions), S.scope, A)
                         ELSE "ok",
                         child_block(stmt.el, S, A, mode))))
      [] stmt.k \in {"next", "stop", "fallthrough"} -> S

analyze_stmt(stmt, S, A) == analyze_stmt_mode(stmt, S, A, Plain)

analyze_stmt_with_return_type(stmt, S, A, R) == analyze_stmt_mode(stmt, S, A, Typed(R))

(***************************************************************************)
(* analysis/semantics/mutation_checker.rs.  M = [mutations,                *)
(* var_declarations]: the set of assigned names and the map from declared  *)
(* names to "declared with var".                                           *)
(***************************************************************************)
RECURSIVE collect_mutations(_, _)
RECURSIVE collect_block(_, _, _)
RECURSIVE collect_bodies(_, _, _)

collect_block(stmts, i, M) ==
    IF i > Len(stmts) THEN M
    ELSE collect_block(stmts, i + 1, collect_mutations(stmts[i], M))

(* the bodies of elseif blocks or of when cases, in order *)
collect_bodies(parts, i, M) ==
    IF i > Len(parts) THEN M
    ELSE collect_bodies(parts, i + 1, collect_block(parts[i].body, 1, M))

collect_mutations(stmt, M) ==
    CASE stmt.k = "var" ->
            [M EXCEPT !.var_declarations = Put(M.var_declarations, stmt.n, TRUE)]
      [] stmt.k \in {"const", "comptime"} ->
            [M EXCEPT !.var_declarations = Put(M.var_declarations, stmt.n, FALSE)]
      [] stmt.k \in {"assign", "fassign"} ->
            [M EXCEPT !.mutations = M.mutations \cup {stmt.n}]
      [] stmt.k \in {"for", "while"} -> collect_block(stmt.body, 1, M)
      [] stmt.k = "expect" -> collect_block(stmt.el, 1, M)
      [] stmt.k = "if" ->
            LET M1 == collect_block(stmt.th, 1, M)
                M2 == collect_bodies(stmt.eifs, 1, M1)
            IN  IF stmt.hasElse THEN collect_block(stmt.el, 1, M2) ELSE M2
      [] stmt.k = "when" ->
            LET M1 == collect_bodies(stmt.cases, 1, M)
            IN  IF stmt.hasElse THEN collect_block(stmt.el, 1, M1) ELSE M1
      [] OTHER -> M

NoMutations == [mutations |-> {}, var_declarations |-> [x \in {} |-> FALSE]]

validate_mutations(M) ==
    IF \E n \in M.mutations : n \in DOMAIN M.var_declarations /\ ~M.var_declarations[n]
    THEN "Cannot assign to immutable variable" ELSE "ok"

(***************************************************************************)
(* analysis/semantics/function_analyzer.rs                                 *)
(***************************************************************************)
(* the parameters inserted as if they were declared with var *)
RECURSIVE insert_params_mutable(_, _, _)
insert_params_mutable(params, i, S) ==
    IF i > Len(params) THEN S
    ELSE insert_params_mutable(params, i + 1,
             [r |-> "ok",
              scope |-> Put(S.scope, params[i].name, params[i].param_type),
              mut |-> Put(S.mut, params[i].name, TRUE)])

RECURSIVE insert_params(_, _, _)
insert_params(params, i, S) ==
    IF i > Len(params) THEN S
    ELSE insert_params(params, i + 1,
             [r |-> "ok",
              scope |-> Put(S.scope, params[i].name, params[i].param_type),
              mut |-> Put(S.mut, params[i].name, FALSE)])

(* a name declared with var that no Assign or FieldAssign names *)
never_mutated(M) ==
    \E n \in DOMAIN M.var_declarations : M.var_declarations[n] /\ n \notin M.mutations

analyze_func(func, A) ==
    IF never_mutated(collect_block(func.body, 1, NoMutations))
    THEN "Variable is never mutated"
    ELSE analyze_block(func.body, 1,
             insert_params(func.params, 1,
                 [r |-> "ok", scope |-> A.global_scope, mut |-> A.global_mutability]),
             A, Typed(func.return_type)).r

(***************************************************************************)
(* Programs (frontend/ast/program.rs): imports, globals, statements and    *)
(* functions.  A global is a Var / Const / Comptime declaration (a         *)
(* statement record), a struct or an enum.                                 *)
(***************************************************************************)
Program(imports, globals, statements, functions) ==
    [imports |-> imports, globals |-> globals,
     statements |-> statements, functions |-> functions]

Param(n, t) == [name |-> n, param_type |-> t]

Func(name, params, return_type, body) ==
    [name |-> name, params |-> params, has_varargs |-> FALSE,
     return_type |-> return_type, extern |-> FALSE, body |-> body]

Field(n, t) == [name |-> n, field_type |-> t]

Struct(name, fields) == [k |-> "struct", name |-> name, fields |-> fields]

Variant(n, payload) == [name |-> n, payload |-> payload]

Enum(name, variants) == [k |-> "enum", name |-> name, variants |-> variants]

(***************************************************************************)
(* analysis/semantics/analyzer.rs.  A is the SemanticAnalyzer: r is the    *)
(* Result so far, the other fields are its tables.                         *)
(***************************************************************************)
NewAnalyzer(imports) ==
    [r |-> "ok", imported_modules |-> imports, functions |-> EmptyMap,
     structs |-> EmptyMap, enums |-> EmptyMap,
     global_scope |-> EmptyMap, global_mutability |-> [x \in {} |-> FALSE]]

HasDuplicate(names) ==
    \E i, j \in 1..Len(names) : i < j /\ names[i].name = names[j].name

(* the first loop over program.globals: structs and enums *)
RECURSIVE register_types(_, _, _)
register_types(globals, i, A) ==
    IF i > Len(globals) \/ A.r # "ok" THEN A
    ELSE LET g == globals[i]
         IN  register_types(globals, i + 1,
               CASE g.k = "struct" ->
                      IF g.name \in DOMAIN A.structs
                      THEN [A EXCEPT !.r = "Struct is defined multiple times"]
                      ELSE IF HasDuplicate(g.fields)
                      THEN [A EXCEPT !.r = "Struct has duplicate field"]
                      ELSE [A EXCEPT !.structs = Put(A.structs, g.name, g)]
                 [] g.k = "enum" ->
                      IF g.name \in DOMAIN A.enums
                      THEN [A EXCEPT !.r = "Enum is defined multiple times"]
                      ELSE IF HasDuplicate(g.variants)
                      THEN [A EXCEPT !.r = "Enum has duplicate variant"]
                      ELSE [A EXCEPT !.enums = Put(A.enums, g.name, g)]
                 [] OTHER -> A)

global_type_check(g, inferred) ==
    IF g.t # ""
    THEN Then(check_type_compatibility(g.t, inferred, g.e), check_expression_bounds(g.e, g.t))
    ELSE check_expression_bounds(g.e, inferred)

global_insert(g, r, inferred, is_mutable, A) ==
    IF r # "ok" THEN [A EXCEPT !.r = r]
    ELSE [A EXCEPT !.global_scope = Put(A.global_scope, g.n,
                                        IF g.t # "" THEN g.t ELSE inferred),
                   !.global_mutability = Put(A.global_mutability, g.n, is_mutable)]

validate_and_register_global(g, inferred, is_mutable, A) ==
    global_insert(g, global_type_check(g, inferred), inferred, is_mutable, A)

(* the checks of analyze_global that come before the registration *)
check_global(g, A) ==
    Then(IF g.k = "comptime" /\ ~is_compile_time_constant(g.e, A.global_scope)
         THEN "Comptime global must be a compile-time constant" ELSE "ok",
    Then(analyze_expr(g.e, A.global_scope, A),
         TypeOk(infer_type(g.e, A.global_scope, A.functions))))

register_global(g, r, inferred, A) ==
    IF r # "ok" THEN [A EXCEPT !.r = r]
    ELSE validate_and_register_global(g, inferred, g.k = "var", A)

(* analyze_global, and the arms of the loop over program.statements that   *)
(* register a top-level Var / Const / Comptime the same way                *)
analyze_global(g, A) ==
    IF g.k \notin {"var", "const", "comptime"} THEN A
    ELSE register_global(g, check_global(g, A),
                         infer_type(g.e, A.global_scope, A.functions), A)

RECURSIVE analyze_globals(_, _, _)
analyze_globals(globals, i, A) ==
    IF i > Len(globals) \/ A.r # "ok" THEN A
    ELSE analyze_globals(globals, i + 1, analyze_global(globals[i], A))

RECURSIVE register_functions(_, _, _)
register_functions(functions, i, A) ==
    IF i > Len(functions) \/ A.r # "ok" THEN A
    ELSE register_functions(functions, i + 1,
             IF functions[i].name \in DOMAIN A.functions
             THEN [A EXCEPT !.r = "Function is defined multiple times"]
             ELSE [A EXCEPT !.functions = Put(A.functions, functions[i].name, functions[i])])

is_declaration(stmt) == stmt.k \in {"var", "const", "comptime"}

(* actual_statements that keeps no statement *)
actual_statements_none(statements) == SelectSeq(statements, LAMBDA st : FALSE)

actual_statements(statements) == SelectSeq(statements, LAMBDA st : ~is_declaration(st))

(* the mutation pass over the top-level statements *)
with_global_declarations(M, global_mutability) ==
    [mutations |-> M.mutations,
     var_declarations |->
         [n \in DOMAIN M.var_declarations \cup DOMAIN global_mutability |->
             IF n \in DOMAIN M.var_declarations
             THEN M.var_declarations[n] ELSE global_mutability[n]]]

check_top_level_mutations(stmts, A) ==
    validate_mutations(
        with_global_declarations(collect_block(stmts, 1, NoMutations), A.global_mutability))

RECURSIVE analyze_funcs(_, _, _)
analyze_funcs(functions, i, A) ==
    IF i > Len(functions) THEN "ok"
    ELSE Then(analyze_func(functions[i], A), analyze_funcs(functions, i + 1, A))

(* analyze_program once the globals and the functions are registered *)
analyze_registered(program, A, actual) ==
    IF A.r # "ok" THEN A.r
    ELSE IF "main" \in DOMAIN A.functions /\ Len(actual) > 0
    THEN "Cannot have top-level executable statements when main is defined"
    ELSE IF "main" \notin DOMAIN A.functions /\ Len(actual) = 0 /\ Len(program.globals) = 0
    THEN "No main function defined and no top-level statements"
    ELSE Then(IF Len(actual) > 0 THEN check_top_level_mutations(actual, A) ELSE "ok",
         Then(IF Len(actual) > 0 /\ "main" \notin DOMAIN A.functions
              THEN analyze_block(actual, 1,
                       [r |-> "ok", scope |-> A.global_scope,
                        mut |-> A.global_mutability], A, Plain).r
              ELSE "ok",
              analyze_funcs(program.functions, 1, A)))

analyze_program(program) ==
    analyze_registered(program,
        register_functions(program.functions, 1,
            analyze_globals(program.statements, 1,
                analyze_globals(program.globals, 1,
                    register_types(program.globals, 1, NewAnalyzer(program.imports))))),
        actual_statements(program.statements))

(***************************************************************************)
(* The compilation pipeline as a state machine.                            *)
(***************************************************************************)
NoC == [emitted |-> FALSE]

NoRt == [running |-> FALSE]

(* commands/compile: the semantic analysis of the parsed program *)
Analyze ==
    /\ phase = "parsed"
    /\ verdict' = analyze_program(prog)
    /\ phase' = IF verdict' = "ok" THEN "analyzed" ELSE "rejected"
    /\ UNCHANGED <<prog, libc, cout, rt>>

Analyzed == phase \in {"analyzed", "rejected"}

MainFn == Func("main", <<>>, "i8", <<Return(IntLit(Zero))>>)

(***************************************************************************)
(* Programs that store or return one value: the value is a literal, a      *)
(* negated literal or the parameter a, the target is of an integer type.   *)
(*   func store(a: Ta): void { const x: T = e; }                           *)
(*   func store(a: Ta): void { var x: T = 0; x = e; }                      *)
(*   func give(a: Ta): R { ret e; }                                        *)
(***************************************************************************)
LiteralValues == {IntLit(v) : v \in LitValues} \cup {Un("neg", IntLit(v)) : v \in LitValues}

StoreProgram(form, T, Ta, e) ==
    Program({}, <<>>, <<>>,
        <<Func("store", <<Param("a", Ta)>>, "void",
               IF form = "const" THEN <<ConstS("x", T, e)>>
               ELSE <<VarS("x", T, IntLit(Zero)), Assign("x", e)>>),
          MainFn>>)

GiveProgram(R, Ta, e) ==
    Program({}, <<>>, <<>>, <<Func("give", <<Param("a", Ta)>>, R, <<Return(e)>>), MainFn>>)

StorePrograms ==
    {StoreProgram(form, T, "i32", e) : form \in {"const", "assign"}, T \in IntTypes,
                                       e \in LiteralValues}
    \cup {StoreProgram(form, T, Ta, Var("a")) : form \in {"const", "assign"},
                                                T \in IntTypes, Ta \in IntTypes}

GivePrograms ==
    {GiveProgram(R, "i32", e) : R \in IntTypes, e \in LiteralValues}
    \cup {GiveProgram(R, Ta, Var("a")) : R \in IntTypes, Ta \in IntTypes}

InitTypes ==
    /\ prog \in StorePrograms \cup GivePrograms
    /\ libc = FALSE
    /\ phase = "parsed"
    /\ verdict = "none"
    /\ cout = NoC
    /\ rt = NoRt

NextSem == Analyze

SpecTypes == InitTypes /\ [][NextSem]_vars

IsStore == prog.functions[1].name = "store"

IsGive == prog.functions[1].name = "give"

(* the statement under test, the type of its target and the analyzer's     *)
(* inferred type of its value                                              *)
StoredExpr == LET b == prog.functions[1].body IN b[Len(b)].e

StoreExpected == prog.functions[1].body[1].t

StoreActual ==
    infer_type(StoredExpr, [n \in {"a"} |-> prog.functions[1].params[1].param_type], EmptyMap)

LiteralFits(e, t) == e.k = "int" /\ LitLE(e.v, TypeMax(t))

(* C1: a declaration with an explicit type, or an assignment, is accepted   *)
(* if and only if expected = actual, or actual widens to expected, or the   *)
(* value is an integer literal that fits in expected.                       *)
C1_StoreAcceptedIffRule ==
    (Analyzed /\ IsStore) =>
        ((verdict = "ok") <=>
            \/ StoreExpected = StoreActual
            \/ can_convert(StoreActual, StoreExpected)
            \/ LiteralFits(StoredExpr, StoreExpected))

(* func give(a: Ta): void { const tmp: R = e; } for func give(a: Ta): R { ret e; } *)
ConstTwin(p) ==
    LET f == p.functions[1]
    IN  Program({}, <<>>, <<>>,
            <<Func("give", f.params, "void", <<ConstS("tmp", f.return_type, f.body[1].e)>>),
              MainFn>>)

(* C7: `ret e` in a function of return type R is accepted exactly when     *)
(* `const tmp: R = e` is accepted in the same scope; here for e an integer *)
(* literal or a negated integer literal, where the declaration is accepted *)
(* exactly when the value fits in R.                                       *)
C7_LiteralReturnAcceptedAsConst ==
    (Analyzed /\ IsGive /\ StoredExpr \in LiteralValues) =>
        ((verdict = "ok") <=> (analyze_program(ConstTwin(prog)) = "ok"))

(***************************************************************************)
(* frontend/parser/parser.rs: parse_program sends a top-level var, const,  *)
(* comptime or struct to globals and every other top-level statement to    *)
(* statements.                                                             *)
(***************************************************************************)
parse_program(imports, items, functions) ==
    Program(imports,
            SelectSeq(items, LAMBDA st : st.k \in {"var", "const", "comptime", "struct"}),
            SelectSeq(items, LAMBDA st : st.k \notin {"var", "const", "comptime", "struct"}),
            functions)

(***************************************************************************)
(* Programs about scopes.  Every binding is named x: a global, a           *)
(* parameter, a local declaration, a for-loop variable; each block may     *)
(* declare x again before it assigns to x, nests one more block, and       *)
(* assigns to x again after it.  Bindings are of type i32, or of the       *)
(* struct type P with the mutation a FieldAssign.                          *)
(***************************************************************************)
MaxDepth == 1

BlockKinds == {"if", "else", "elseif", "while", "for", "when"}

Wrap(kind, inner) ==
    CASE kind = "if" -> If(BoolLit, inner, <<>>, FALSE, <<>>)
      [] kind = "else" -> If(BoolLit, <<>>, <<>>, TRUE, inner)
      [] kind = "elseif" -> If(BoolLit, <<>>, <<[c |-> BoolLit, body |-> inner]>>, FALSE, <<>>)
      [] kind = "while" -> While(BoolLit, inner)
      [] kind = "for" -> For("x", IntLit(Zero), IntLit(One), inner)
      [] kind = "when" -> When(IntLit(One), <<Case(Single(IntLit(One)), inner)>>, FALSE, <<>>)

(* the value a declaration of type ty is initialized with *)
InitOf(ty) == IF ty = "P" THEN Var("q") ELSE IntLit(One)

Mutation(ty) ==
    IF ty = "P" THEN FieldAssign("x", <<"v">>, IntLit(One)) ELSE Assign("x", IntLit(One))

DeclKinds == {"none", "var", "const", "comptime"}

(* no declaration, or one declaration of x *)
DeclOption(kind, ty) ==
    IF kind = "none" THEN <<>> ELSE <<[k |-> kind, n |-> "x", t |-> ty, e |-> InitOf(ty)]>>

(* A frame is one level of nesting: what the block declares before its     *)
(* nested block, the kind of the nested block, whether it assigns after it *)
Frames == [pre : DeclKinds, kind : BlockKinds, post : BOOLEAN]

ScopeShapes == UNION {[1..n -> Frames] : n \in 0..MaxDepth}

RECURSIVE ScopeBody(_, _, _, _)
ScopeBody(frames, i, last, ty) ==
    IF i > Len(frames) THEN DeclOption(last, ty) \o <<Mutation(ty)>>
    ELSE DeclOption(frames[i].pre, ty)
         \o <<Wrap(frames[i].kind, ScopeBody(frames, i + 1, last, ty))>>
         \o (IF frames[i].post THEN <<Mutation(ty)>> ELSE <<>>)

StructP == Struct("P", <<Field("v", "i32")>>)

ProgramShapes == {"function", "function of x", "script", "struct", "struct of x"}

ScopeProgram(shape, g, body) ==
    CASE shape = "function" ->
            parse_program({}, DeclOption(g, "i32"),
                          <<Func("scope", <<>>, "void", body), MainFn>>)
      [] shape = "function of x" ->
            parse_program({}, DeclOption(g, "i32"),
                          <<Func("scope", <<Param("x", "i32")>>, "void", body), MainFn>>)
      [] shape = "script" -> parse_program({}, DeclOption(g, "i32") \o body, <<>>)
      [] shape = "struct" ->
            parse_program({}, <<StructP>>,
                          <<Func("scope", <<Param("q", "P")>>, "void", body), MainFn>>)
      [] shape = "struct of x" ->
            parse_program({}, <<StructP>>,
                <<Func("scope", <<Param("q", "P"), Param("x", "P")>>, "void", body), MainFn>>)

ShapeType(shape) == IF shape \in {"struct", "struct of x"} THEN "P" ELSE "i32"

InitScope ==
    /\ \E shape \in ProgramShapes, g \in DeclKinds, frames \in ScopeShapes, last \in DeclKinds :
          prog = ScopeProgram(shape, g, ScopeBody(frames, 1, last, ShapeType(shape)))
    /\ libc = FALSE
    /\ phase = "parsed"
    /\ verdict = "none"
    /\ cout = NoC
    /\ rt = NoRt

SpecScope == InitScope /\ [][NextSem]_vars

(***************************************************************************)
(* Lexical scoping, as the language defines it and independently of the    *)
(* analyzer's maps: an environment sends a name to the declaration that    *)
(* binds it at a point of the program, [kind, at], where kind is var,      *)
(* const, comptime, param or loop and at is the path of the declaration.   *)
(* Targets(block) is the set of bindings that the Assign and FieldAssign   *)
(* statements of a block resolve to; VarsDeclared(block) is the set of     *)
(* paths of its var declarations.                                          *)
(***************************************************************************)
Unbound == [kind |-> "unbound", at |-> <<>>]

RECURSIVE Targets(_, _, _, _)
RECURSIVE PartTargets(_, _, _, _)

PartTargets(parts, j, env, path) ==
    IF j > Len(parts) THEN {}
    ELSE Targets(parts[j].body, 1, env, path \o <<j>>) \cup PartTargets(parts, j + 1, env, path)

Targets(stmts, i, env, path) ==
    IF i > Len(stmts) THEN {}
    ELSE LET st == stmts[i]
             here == path \o <<i>>
         IN  CASE st.k \in {"var", "const", "comptime"} ->
                    Targets(stmts, i + 1, Put(env, st.n, [kind |-> st.k, at |-> here]), path)
               [] st.k \in {"assign", "fassign"} ->
                    {IF st.n \in DOMAIN env THEN env[st.n] ELSE Unbound}
                    \cup Targets(stmts, i + 1, env, path)
               [] st.k = "if" ->
                    Targets(st.th, 1, env, here \o <<1>>)
                    \cup PartTargets(st.eifs, 1, env, here \o <<2>>)
                    \cup (IF st.hasElse THEN Targets(st.el, 1, env, here \o <<3>>) ELSE {})
                    \cup Targets(stmts, i + 1, env, path)
               [] st.k = "while" ->
                    Targets(st.body, 1, env, here \o <<1>>) \cup Targets(stmts, i + 1, env, path)
               [] st.k = "for" ->
                    Targets(st.body, 1, Put(env, st.n, [kind |-> "loop", at |-> here]),
                            here \o <<1>>)
                    \cup Targets(stmts, i + 1, env, path)
               [] st.k = "when" ->
                    PartTargets(st.cases, 1, env, here \o <<1>>)
                    \cup (IF st.hasElse THEN Targets(st.el, 1, env, here \o <<2>>) ELSE {})
                    \cup Targets(stmts, i + 1, env, path)
               [] OTHER -> Targets(stmts, i + 1, env, path)

RECURSIVE VarsDeclared(_, _, _)
RECURSIVE PartVarsDeclared(_, _, _)

PartVarsDeclared(parts, j, path) ==
    IF j > Len(parts) THEN {}
    ELSE VarsDeclared(parts[j].body, 1, path \o <<j>>) \cup PartVarsDeclared(parts, j + 1, path)

VarsDeclared(stmts, i, path) ==
    IF i > Len(stmts) THEN {}
    ELSE LET st == stmts[i]
             here == path \o <<i>>
         IN  VarsDeclared(stmts, i + 1, path) \cup
             CASE st.k = "var" -> {here}
               [] st.k = "if" ->
                    VarsDeclared(st.th, 1, here \o <<1>>)
                    \cup PartVarsDeclared(st.eifs, 1, here \o <<2>>)
                    \cup (IF st.hasElse THEN VarsDeclared(st.el, 1, here \o <<3>>) ELSE {})
               [] st.k \in {"while", "for"} -> VarsDeclared(st.body, 1, here \o <<1>>)
               [] st.k = "when" ->
                    PartVarsDeclared(st.cases, 1, here \o <<1>>)
                    \cup (IF st.hasElse THEN VarsDeclared(st.el, 1, here \o <<2>>) ELSE {})
               [] OTHER -> {}

(* the globals bind their names for the whole program; path <<0>> is the   *)
(* global block, <<f>> the body of function f, <<-1>> the top-level code   *)
RECURSIVE GlobalEnv(_, _, _)
GlobalEnv(globals, i, env) ==
    IF i > Len(globals) THEN env
    ELSE GlobalEnv(globals, i + 1,
             IF globals[i].k \in {"var", "const", "comptime"}
             THEN Put(env, globals[i].n, [kind |-> globals[i].k, at |-> <<0, i>>])
             ELSE env)

RECURSIVE ParamEnv(_, _, _, _)
ParamEnv(params, j, env, f) ==
    IF j > Len(params) THEN env
    ELSE ParamEnv(params, j + 1, Put(env, params[j].name, [kind |-> "param", at |-> <<f, 0, j>>]), f)

NoEnv == [x \in {} |-> Unbound]

ProgramTargets(p) ==
    Targets(p.statements, 1, GlobalEnv(p.globals, 1, NoEnv), <<-1>>)
    \cup UNION {Targets(p.functions[f].body, 1,
                        ParamEnv(p.functions[f].params, 1, GlobalEnv(p.globals, 1, NoEnv), f),
                        <<f>>) : f \in 1..Len(p.functions)}

ProgramVarsDeclared(p) ==
    VarsDeclared(p.globals, 1, <<0>>)
    \cup VarsDeclared(p.statements, 1, <<-1>>)
    \cup UNION {VarsDeclared(p.functions[f].body, 1, <<f>>) : f \in 1..Len(p.functions)}

(* C2: in every accepted program each Assign or FieldAssign targets a name *)
(* that resolves, at that point of its lexical scope, to a binding         *)
(* declared with var, never to a const, a comptime, a parameter or a       *)
(* for-loop variable.                                                      *)
C2_MutationTargetsAreVars ==
    (phase = "analyzed") => \A b \in ProgramTargets(prog) : b.kind = "var"

(* an accepted program that assigns inside a nested block to a var         *)
(* declared outside of it, and holds an immutable binding of the same name *)
C2_Witness ==
    /\ phase = "analyzed"
    /\ \E b \in ProgramTargets(prog) : b.kind = "var" /\ Len(b.at) = 2
    /\ \E f \in 1..Len(prog.functions) :
          /\ Len(prog.functions[f].params) > 0
          /\ \E i \in 1..Len(prog.functions[f].body) :
                prog.functions[f].body[i].k \in {"if", "while", "for", "when"}

(* C6: the analyzer rejects every program with a var declaration (global,  *)
(* in a top-level block or in a block of a function body) whose binding is *)
(* never the target of an Assign or FieldAssign.                           *)
C6_UnmutatedVarRejected ==
    (phase = "analyzed") =>
        \A d \in ProgramVarsDeclared(prog) : \E b \in ProgramTargets(prog) : b.at = d

(***************************************************************************)
(* The back end (compiler/backend/codegen).  The emitted C is kept as a    *)
(* tree: a sequence of top-level items, each function body a sequence of   *)
(* C statements, each C expression a record.  Literals, variables and      *)
(* operators are emitted token for token, so their records keep the shape  *)
(* of the source expression; a call becomes a ccall of the C function the  *)
(* emitter names, and a formatted print becomes the sequence of ccalls it  *)
(* is expanded to.                                                         *)
(***************************************************************************)
(* utils/type_utils.rs: the literal type the back end uses *)
TypeUtils_infer_int_literal_type(val) ==
    IF LitLE(val, TypeMax("i64")) THEN "i64"
    ELSE IF LitLE(val, TypeMax("u64")) THEN "u64"
    ELSE "u128"

(* helpers/type_inference.rs: wider_type, by position in type_priority *)
type_priority ==
    <<"bool", "i8", "u8", "i16", "u16", "i32", "u32", "i64", "u64", "i128", "u128">>

position(t) ==
    IF \E i \in DOMAIN type_priority : type_priority[i] = t
    THEN CHOOSE i \in DOMAIN type_priority : type_priority[i] = t
    ELSE 0                                              \* None

TypeInference_wider_type(type1, type2) ==
    IF position(type1) # 0 /\ position(type2) # 0
    THEN IF position(type1) > position(type2) THEN type1 ELSE type2
    ELSE type1

TypeInference_infer_call_type(path, targs, function_signatures) ==
    IF is_readln(path) THEN "str"
    ELSE IF is_read(path) /\ Len(targs) = 1 THEN targs[1]
    ELSE IF Len(path) = 1
         THEN (IF path[1] \in DOMAIN function_signatures
               THEN function_signatures[path[1]] ELSE "i64")
    ELSE "i64"

RECURSIVE infer_expression_type(_, _, _)
infer_expression_type(e, symbol_table, function_signatures) ==
    CASE e.k = "int" -> TypeUtils_infer_int_literal_type(e.v)
      [] e.k = "bool" -> "bool"
      [] e.k = "var" ->
            IF e.n \in DOMAIN symbol_table THEN symbol_table[e.n] ELSE "i64"
      [] e.k = "call" -> TypeInference_infer_call_type(e.path, e.targs, function_signatures)
      [] e.k = "bin" ->
            TypeInference_wider_type(
                infer_expression_type(e.l, symbol_table, function_signatures),
                infer_expression_type(e.r, symbol_table, function_signatures))
      [] e.k = "un" -> infer_expression_type(e.a, symbol_table, function_signatures)
      [] e.k = "str" -> "str"
      [] e.k = "null" -> "void*"
      [] e.k = "ifx" ->
            TypeInference_wider_type(
                infer_expression_type(e.t, symbol_table, function_signatures),
                infer_expression_type(e.e, symbol_table, function_signatures))

(* helpers/type_mapper.rs, behind ProgramGenerator::map_type: the name of  *)
(* a struct or an enum is its own C type                                   *)
map_type(type_name, type_defs) ==
    IF type_name \in type_defs THEN type_name
    ELSE CASE type_name = "bool" -> "bool"
           [] type_name = "i8" -> "int8_t"
           [] type_name = "i16" -> "int16_t"
           [] type_name = "i32" -> "int32_t"
           [] type_name = "i64" -> "int64_t"
           [] type_name = "i128" -> "__int128"
           [] type_name = "u8" -> "uint8_t"
           [] type_name = "u16" -> "uint16_t"
           [] type_name = "u32" -> "uint32_t"
           [] type_name = "u64" -> "uint64_t"
           [] type_name = "u128" -> "unsigned __int128"
           [] type_name = "void" -> "void"
           [] type_name = "str" -> "const char*"
           [] type_name = "void*" -> "void*"
           [] OTHER -> "int64_t"

(***************************************************************************)
(* stdlib/stdlib_collector.rs.  C is the collector: used is the set of     *)
(* used_functions, symbol_table the generator's table it writes to.        *)
(***************************************************************************)
RECURSIVE StdlibCollector_infer_expr_type(_, _)
StdlibCollector_infer_expr_type(e, symbol_table) ==
    CASE e.k = "int" -> TypeUtils_infer_int_literal_type(e.v)
      [] e.k = "bool" -> "bool"
      [] e.k = "str" -> "str"
      [] e.k = "null" -> "void*"
      [] e.k = "var" ->
            IF e.n \in DOMAIN symbol_table THEN symbol_table[e.n] ELSE "i64"
      [] e.k = "ifx" -> StdlibCollector_infer_expr_type(e.t, symbol_table)
      [] OTHER -> "i64"

(* the suffix of the typed printer of a type: add_print_function_for_type  *)
(* of the collector; emit_formatted_print and add_io_type_suffix of the    *)
(* expression generator repeat the same ladder                             *)
add_io_type_suffix(type_name) ==
    IF type_name = "str" THEN ""
    ELSE IF type_name = "bool" THEN "_bool"
    ELSE IF type_name \in {"i128", "u128"}
         THEN (IF type_name = "u128" THEN "_u128" ELSE "_i128")
    ELSE IF type_name \in UnsignedTypes THEN "_u64"
    ELSE "_i64"

add_print_function_for_type(type_name, println) ==
    "sm_std_io_print" \o (IF println THEN "ln" ELSE "") \o add_io_type_suffix(type_name)

process_print_call(args, symbol_table) ==
    IF Len(args) = 1
    THEN IF args[1].k = "str" THEN {"sm_std_io_print"}      \* &args[1..] is empty
         ELSE {add_print_function_for_type(
                   StdlibCollector_infer_expr_type(args[1], symbol_table), FALSE)}
    ELSE {"sm_std_io_print"}

process_println_call(args, symbol_table) ==
    IF Len(args) = 0 THEN {"sm_std_io_println"}
    ELSE IF Len(args) = 1
    THEN IF args[1].k = "str"
         THEN (IF args[1].holes > 0 THEN {"sm_std_io_print", "sm_std_io_println"}
               ELSE {"sm_std_io_println"})
         ELSE {add_print_function_for_type(
                   StdlibCollector_infer_expr_type(args[1], symbol_table), TRUE)}
    ELSE {"sm_std_io_print", "sm_std_io_println"}
         \cup {add_print_function_for_type(
                   StdlibCollector_infer_expr_type(args[i], symbol_table), FALSE) :
               i \in 2..Len(args)}

process_call(path, targs, args, symbol_table) ==
    IF ~(\/ (Len(path) = 2 /\ path[1] = "io")
         \/ (Len(path) = 3 /\ path[1] = "std" /\ path[2] = "io"))
    THEN {}
    ELSE CASE path[Len(path)] = "readln" -> {"sm_std_io_readln"}
           [] path[Len(path)] = "read" ->
                 IF Len(targs) = 1 THEN {"sm_std_io_read_" \o targs[1]} ELSE {}
           [] path[Len(path)] = "print" -> process_print_call(args, symbol_table)
           [] path[Len(path)] = "println" -> process_println_call(args, symbol_table)
           [] OTHER -> {}

RECURSIVE collect_from_expr(_, _)
collect_from_expr(e, symbol_table) ==
    CASE e.k = "call" ->
            process_call(e.path, e.targs, e.args, symbol_table)
            \cup UNION {collect_from_expr(e.args[i], symbol_table) : i \in DOMAIN e.args}
      [] e.k = "bin" ->
            collect_from_expr(e.l, symbol_table) \cup collect_from_expr(e.r, symbol_table)
      [] e.k = "un" -> collect_from_expr(e.a, symbol_table)
      [] e.k = "ifx" ->
            collect_from_expr(e.c, symbol_table) \cup collect_from_expr(e.t, symbol_table)
            \cup collect_from_expr(e.e, symbol_table)
      [] OTHER -> {}

(* collect_from_expr into used_functions *)
collect_expr(e, C) == [C EXCEPT !.used = @ \cup collect_from_expr(e, C.symbol_table)]

register_variable(stmt, C) ==
    [C EXCEPT !.symbol_table =
        Put(@, stmt.n, IF stmt.t # "" THEN stmt.t
                       ELSE StdlibCollector_infer_expr_type(stmt.e, C.symbol_table))]

(* collect_from_stmt has arms for When, For, Var, Const, Comptime, Assign, *)
(* Return, Expression, If (condition, then_block and else_block) and       *)
(* While, and none that descends into another statement                    *)
RECURSIVE collect_from_stmt(_, _)
RECURSIVE collect_from_stmts(_, _, _)
RECURSIVE collect_from_cases(_, _, _)
collect_from_stmts(stmts, i, C) ==
    IF i > Len(stmts) THEN C
    ELSE collect_from_stmts(stmts, i + 1, collect_from_stmt(stmts[i], C))

collect_from_cases(cases, i, C) ==
    IF i > Len(cases) THEN C
    ELSE collect_from_cases(cases, i + 1,
             collect_from_stmts(cases[i].body, 1,
                 IF cases[i].pat.k = "single" THEN collect_expr(cases[i].pat.e, C)
                 ELSE collect_expr(cases[i].pat.end, collect_expr(cases[i].pat.start, C))))

collect_from_stmt(stmt, C) ==
    CASE stmt.k = "when" ->
            collect_from_stmts(IF stmt.hasElse THEN stmt.el ELSE <<>>, 1,
                collect_from_cases(stmt.cases, 1, collect_expr(stmt.v, C)))
      [] stmt.k = "for" ->
            collect_from_stmts(stmt.body, 1,
                collect_expr(IF stmt.hasFilter THEN stmt.filter ELSE IntLit(One),
                    collect_expr(IF stmt.hasStep THEN stmt.step ELSE IntLit(One),
                        collect_expr(stmt.end, collect_expr(stmt.start, C)))))
      [] stmt.k \in {"var", "const", "comptime"} ->
            collect_expr(stmt.e, register_variable(stmt, C))
      [] stmt.k \in {"assign", "ret", "expr"} -> collect_expr(stmt.e, C)
      [] stmt.k = "if" ->
            collect_from_stmts(IF stmt.hasElse THEN stmt.el ELSE <<>>, 1,
                collect_from_stmts(stmt.th, 1, collect_expr(stmt.c, C)))
      [] stmt.k = "while" -> collect_from_stmts(stmt.body, 1, collect_expr(stmt.c, C))
      [] OTHER -> C

RECURSIVE collect_from_funcs(_, _, _)
collect_from_funcs(functions, i, C) ==
    IF i > Len(functions) THEN C
    ELSE collect_from_funcs(functions, i + 1,
             collect_from_stmts(functions[i].body, 1, C))   \* collect_from_func

RECURSIVE collect_from_globals(_, _, _)
collect_from_globals(globals, i, C) ==
    IF i > Len(globals) THEN C
    ELSE collect_from_globals(globals, i + 1,
             IF globals[i].k \in {"var", "const", "comptime"}
             THEN collect_expr(globals[i].e, C) ELSE C)

collect_stdlib_usage(program, symbol_table) ==
    collect_from_globals(program.globals, 1,
        collect_from_stmts(program.statements, 1,
            collect_from_funcs(program.functions, 1,
                [used |-> {}, symbol_table |-> symbol_table])))

(* stdlib/stdlib_emitter.rs: the names emit_decl writes a declaration for *)
emit_decl ==
    {"sm_std_io_print" \o ln \o sfx :
        ln \in {"", "ln"}, sfx \in {"", "_bool", "_i64", "_u64", "_i128", "_u128"}}
    \cup {"sm_std_io_readln"}
    \cup {"sm_std_io_read_" \o t :
            t \in {"i8", "u8", "i16", "u16", "i32", "u32", "i64", "u64"}}

(***************************************************************************)
(* generators/expression_generator.rs.  g is the generator: symbol_table,  *)
(* function_signatures and type_defs (the names in struct_defs and         *)
(* enum_defs).                                                             *)
(***************************************************************************)
CCall(f, args) == [k |-> "ccall", f |-> f, args |-> args]

RECURSIVE join(_, _)
join(path, i) ==
    IF i > Len(path) THEN "" ELSE "_" \o path[i] \o join(path, i + 1)

build_module_func_name(path) ==
    IF path[1] = "io" THEN "sm_std_io_" \o path[2]
    ELSE "sm" \o join(path, 1)            \* sm_std_<module>_<f>, sm_std_<f>, sm_<path>

resolve_func_name(path, args, g) ==
    (IF Len(path) >= 2 THEN build_module_func_name(path) ELSE path[1])
    \o (IF (is_print(path) \/ is_println(path)) /\ Len(args) = 1
        THEN add_io_type_suffix(
                 infer_expression_type(args[1], g.symbol_table, g.function_signatures))
        ELSE "")

RECURSIVE generate_expr(_, _)
RECURSIVE emit_formatted_parts(_, _, _)
(* the text before placeholder i, then the typed printer of argument i *)
emit_formatted_parts(args, i, g) ==
    IF i > Len(args) + 1 THEN <<>>
    ELSE <<CCall("sm_std_io_print", <<StrLit(0)>>)>>
         \o (IF i <= Len(args)
             THEN <<CCall("sm_std_io_print" \o add_io_type_suffix(
                              infer_expression_type(args[i], g.symbol_table,
                                                    g.function_signatures)),
                          <<generate_expr(args[i], g)>>)>>
             ELSE <<>>)
         \o emit_formatted_parts(args, i + 1, g)

emit_formatted_print(format_str, args, with_newline, g) ==
    IF format_str.holes # Len(args)
    THEN CCall("sm_std_io_print" \o (IF with_newline THEN "ln" ELSE ""), <<format_str>>)
    ELSE [k |-> "cseq",
          es |-> emit_formatted_parts(args, 1, g)
                 \o (IF with_newline THEN <<CCall("sm_std_io_println", <<StrLit(0)>>)>>
                     ELSE <<>>)]

emit_call(e, g) ==
    IF is_readln(e.path) THEN CCall("sm_std_io_readln", <<>>)
    ELSE IF is_read(e.path)
    THEN (IF Len(e.targs) = 1 THEN CCall("sm_std_io_read_" \o e.targs[1], <<>>)
          ELSE [k |-> "comment"])
    ELSE IF /\ is_println(e.path) \/ is_print(e.path)
            /\ Len(e.args) > 0
            /\ e.args[1].k = "str"
            /\ e.args[1].holes > 0
    THEN emit_formatted_print(e.args[1], SubSeq(e.args, 2, Len(e.args)),
                              is_println(e.path), g)
    ELSE CCall(resolve_func_name(e.path, e.args, g),
               [i \in DOMAIN e.args |-> generate_expr(e.args[i], g)])

generate_expr(e, g) ==
    CASE e.k \in {"int", "bool", "str", "null", "var"} -> e
      [] e.k = "call" -> emit_call(e, g)
      [] e.k = "bin" ->
            [e EXCEPT !.l = generate_expr(e.l, g), !.r = generate_expr(e.r, g)]
      [] e.k = "un" ->
            IF e.op = "neg" /\ e.a.k = "int" /\ e.a.v = <<127, 0>>
            THEN [k |-> "int128_min"]
            ELSE [e EXCEPT !.a = generate_expr(e.a, g)]
      [] e.k = "ifx" ->
            [e EXCEPT !.c = generate_expr(e.c, g), !.t = generate_expr(e.t, g),
                      !.e = generate_expr(e.e, g)]

(***************************************************************************)
(* generators/statement_generator.rs.  A generated piece is the C          *)
(* statements c and the generator g as the piece leaves it: the symbol     *)
(* table is never scoped.                                                  *)
(***************************************************************************)
Emitted(c, g) == [c |-> c, g |-> g]

Register(g, name, summit_type) ==
    [g EXCEPT !.symbol_table = Put(@, name, summit_type)]

(* utils/type_resolver.rs *)
resolve_type(stmt, g) ==
    IF stmt.t # "" THEN stmt.t
    ELSE infer_expression_type(stmt.e, g.symbol_table, g.function_signatures)

CDecl(const, ctype, summit_type, n, e) ==
    [k |-> "decl", const |-> const, ctype |-> ctype, summit_type |-> summit_type,
     n |-> n, e |-> e]

(* emit_let_stmt, and emit_const_stmt with const set *)
emit_let_stmt(stmt, summit_type, const, g) ==
    Emitted(<<CDecl(const, map_type(summit_type, g.type_defs), summit_type, stmt.n,
                    generate_expr(stmt.e, g))>>,
            Register(g, stmt.n, summit_type))

has_fallthrough(case) ==
    Len(case.body) > 0 /\ case.body[Len(case.body)].k = "fallthrough"

(* the test of one when case against the C expression the value is read from *)
when_test(pat, value, g) ==
    IF pat.k = "single" THEN Bin("eq", value, generate_expr(pat.e, g))
    ELSE Bin("and", Bin("ge", value, generate_expr(pat.start, g)),
                    Bin(IF pat.inclusive THEN "le" ELSE "lt", value,
                        generate_expr(pat.end, g)))

(* what one case adds to the C of a when statement, B its generated body:  *)
(* a label and a guarded block, a link of an if chain, or a switch arm     *)
when_case(stmt, i, mode, B, g) ==
    CASE mode = "goto" ->
            <<[k |-> "label", l |-> i - 1],
              [k |-> "if",
               c |-> Bin("or", Var("__when_matched"),
                         when_test(stmt.cases[i].pat, Var("__when_value"), g)),
               th |-> B.c \o <<[k |-> "assign", n |-> "__when_matched", e |-> IntLit(One)]>>
                      \o (IF has_fallthrough(stmt.cases[i]) /\ i < Len(stmt.cases)
                          THEN <<[k |-> "goto", l |-> i]>> ELSE <<>>),
               eifs |-> <<>>, hasElse |-> FALSE, el |-> <<>>]>>
      [] mode = "chain" ->
            <<[c |-> when_test(stmt.cases[i].pat, generate_expr(stmt.v, g), g),
               body |-> B.c]>>
      [] mode = "switch" ->
            <<[default |-> FALSE,
               label |-> IF stmt.cases[i].pat.k = "single"
                         THEN generate_expr(stmt.cases[i].pat.e, g) ELSE [k |-> "comment"],
               body |-> B.c \o (IF has_fallthrough(stmt.cases[i]) THEN <<>>
                                ELSE <<[k |-> "break"]>>)]>>

RECURSIVE generate_stmt(_, _)
RECURSIVE generate_stmts(_, _, _)
generate_stmts(stmts, i, acc) ==
    IF i > Len(stmts) THEN acc
    ELSE generate_stmts(stmts, i + 1, generate_stmt(stmts[i], acc))

(* a block generated from the generator g on *)
generate_block(stmts, g) == generate_stmts(stmts, 1, Emitted(<<>>, g))

add_case(acc, stmt, i, mode, B) ==
    Emitted(acc.c \o when_case(stmt, i, mode, B, acc.g), B.g)

RECURSIVE emit_when_cases(_, _, _, _)
emit_when_cases(stmt, i, mode, acc) ==
    IF i > Len(stmt.cases) THEN acc
    ELSE emit_when_cases(stmt, i + 1, mode,
             add_case(acc, stmt, i, mode,
                 generate_block(IF mode = "goto"
                                THEN SelectSeq(stmt.cases[i].body,
                                               LAMBDA st : st.k # "fallthrough")
                                ELSE stmt.cases[i].body, acc.g)))

(* emit_when_with_ranges and emit_when_with_switch once the cases Cs and   *)
(* the else block E are generated                                          *)
when_stmt(stmt, mode, Cs, E, g) ==
    CASE mode = "goto" ->
            [k |-> "block",
             body |-> <<CDecl(FALSE,
                              map_type(infer_expression_type(stmt.v, g.symbol_table,
                                           g.function_signatures), g.type_defs),
                              "", "__when_value", generate_expr(stmt.v, g)),
                        CDecl(FALSE, "int", "", "__when_matched", IntLit(Zero))>>
                      \o Cs.c
                      \o (IF stmt.hasElse
                          THEN <<[k |-> "if", c |-> Un("not", Var("__when_matched")),
                                  th |-> E.c, eifs |-> <<>>, hasElse |-> FALSE,
                                  el |-> <<>>]>>
                          ELSE <<>>)]
      [] mode = "chain" ->
            [k |-> "if", c |-> Cs.c[1].c, th |-> Cs.c[1].body,
             eifs |-> SubSeq(Cs.c, 2, Len(Cs.c)), hasElse |-> stmt.hasElse, el |-> E.c]
      [] mode = "switch" ->
            [k |-> "switch", v |-> generate_expr(stmt.v, g),
             arms |-> Cs.c \o (IF stmt.hasElse
                               THEN <<[default |-> TRUE, label |-> [k |-> "comment"],
                                       body |-> E.c \o <<[k |-> "break"]>>]>>
                               ELSE <<>>)]

when_else(stmt, mode, Cs, g) ==
    IF stmt.hasElse
    THEN (LET E == generate_block(stmt.el, Cs.g)
          IN  Emitted(<<when_stmt(stmt, mode, Cs, E, g)>>, E.g))
    ELSE Emitted(<<when_stmt(stmt, mode, Cs, Emitted(<<>>, Cs.g), g)>>, Cs.g)

emit_when_stmt(stmt, g) ==
    LET mode == IF \E i \in DOMAIN stmt.cases : stmt.cases[i].pat.k = "range"
                THEN (IF \E i \in DOMAIN stmt.cases : has_fallthrough(stmt.cases[i])
                      THEN "goto" ELSE "chain")
                ELSE "switch"
    IN  when_else(stmt, mode, emit_when_cases(stmt, 1, mode, Emitted(<<>>, g)), g)

(* *val as i64 > 0 of a u128 literal *)
as_i64_positive(v) == (v[1] < 63 /\ v # Zero) \/ v = <<63, -1>>

step_value(stmt, g) == IF stmt.hasStep THEN generate_expr(stmt.step, g) ELSE IntLit(One)

(* emit_simple_for_loop and emit_complex_for_loop; g holds the loop        *)
(* variable and B is the generated body                                    *)
for_loop(stmt, loop_type, g, B) ==
    IF ~stmt.hasStep /\ ~stmt.hasFilter
    THEN [k |-> "for", ctype |-> map_type(loop_type, g.type_defs),
          summit_type |-> loop_type, n |-> stmt.n,
          start |-> generate_expr(stmt.start, g), end |-> generate_expr(stmt.end, g),
          inclusive |-> stmt.inclusive, body |-> B.c]
    ELSE [k |-> "block",
          body |->
            <<CDecl(FALSE, map_type(loop_type, g.type_defs), loop_type, stmt.n,
                    generate_expr(stmt.start, g)),
              [k |-> "while",
               c |-> Bin(IF stmt.hasStep /\ stmt.step.k = "int"
                            /\ ~as_i64_positive(stmt.step.v)
                         THEN (IF stmt.inclusive THEN "ge" ELSE "gt")
                         ELSE (IF stmt.inclusive THEN "le" ELSE "lt"),
                         Var(stmt.n), generate_expr(stmt.end, g)),
               body |->
                 (IF stmt.hasFilter
                  THEN <<[k |-> "if", c |-> Un("not", generate_expr(stmt.filter, g)),
                          th |-> <<[k |-> "add_assign", n |-> stmt.n,
                                    e |-> step_value(stmt, g)],
                                   [k |-> "continue"]>>,
                          eifs |-> <<>>, hasElse |-> FALSE, el |-> <<>>]>>
                  ELSE <<>>)
                 \o B.c
                 \o <<[k |-> "add_assign", n |-> stmt.n, e |-> step_value(stmt, B.g)]>>]>>]

for_emitted(stmt, loop_type, g) ==
    LET B == generate_block(stmt.body, g)
    IN  Emitted(<<for_loop(stmt, loop_type, g, B)>>, B.g)

emit_for_loop(stmt, g) ==
    LET loop_type ==
            TypeInference_wider_type(
                infer_expression_type(stmt.start, g.symbol_table, g.function_signatures),
                infer_expression_type(stmt.end, g.symbol_table, g.function_signatures))
    IN  for_emitted(stmt, loop_type, Register(g, stmt.n, loop_type))

RECURSIVE emit_elseifs(_, _, _)
emit_elseifs(eifs, i, acc) ==
    IF i > Len(eifs) THEN acc
    ELSE LET B == generate_block(eifs[i].body, acc.g)
         IN  emit_elseifs(eifs, i + 1,
                 Emitted(Append(acc.c, [c |-> generate_expr(eifs[i].c, acc.g),
                                        body |-> B.c]), B.g))

emit_if_stmt(stmt, g) ==
    LET T == generate_block(stmt.th, g)
        Eifs == emit_elseifs(stmt.eifs, 1, Emitted(<<>>, T.g))
        E == IF stmt.hasElse THEN generate_block(stmt.el, Eifs.g) ELSE Emitted(<<>>, Eifs.g)
    IN  Emitted(<<[k |-> "if", c |-> generate_expr(stmt.c, g), th |-> T.c,
                   eifs |-> Eifs.c, hasElse |-> stmt.hasElse, el |-> E.c]>>, E.g)

emit_while_stmt(stmt, g) ==
    LET B == generate_block(stmt.body, g)
    IN  Emitted(<<[k |-> "while", c |-> generate_expr(stmt.c, g), body |-> B.c]>>, B.g)

(* the statement appended to what acc holds so far *)
generate_stmt(stmt, acc) ==
    LET g == acc.g
        G == CASE stmt.k = "when" -> emit_when_stmt(stmt, g)
               [] stmt.k = "for" -> emit_for_loop(stmt, g)
               [] stmt.k = "var" -> emit_let_stmt(stmt, resolve_type(stmt, g), FALSE, g)
               [] stmt.k \in {"const", "comptime"} ->
                     emit_let_stmt(stmt, resolve_type(stmt, g), TRUE, g)
               [] stmt.k = "assign" ->
                     Emitted(<<[k |-> "assign", n |-> stmt.n,
                                e |-> generate_expr(stmt.e, g)]>>, g)
               [] stmt.k = "fassign" ->
                     Emitted(<<[k |-> "field_assign", n |-> stmt.n, f |-> stmt.f,
                                e |-> generate_expr(stmt.e, g)]>>, g)
               [] stmt.k = "ret" ->
                     Emitted(<<[k |-> "return", e |-> generate_expr(stmt.e, g)]>>, g)
               [] stmt.k = "expr" ->
                     Emitted(<<[k |-> "expr", e |-> generate_expr(stmt.e, g)]>>, g)
               [] stmt.k = "if" -> emit_if_stmt(stmt, g)
               [] stmt.k = "while" -> emit_while_stmt(stmt, g)
               [] stmt.k = "next" -> Emitted(<<[k |-> "continue"]>>, g)
               [] stmt.k = "stop" -> Emitted(<<[k |-> "break"]>>, g)
               [] stmt.k = "fallthrough" -> Emitted(<<[k |-> "comment"]>>, g)
    IN  Emitted(acc.c \o G.c, G.g)

(***************************************************************************)
(* helpers/compile_time_checker.rs, generators/global_generator.rs,        *)
(* generators/function_generator.rs and generators/program_generator.rs.   *)
(* The output is the sequence of top-level items of the C file.            *)
(***************************************************************************)
RECURSIVE is_compile_time_constant_expr(_, _)
is_compile_time_constant_expr(e, runtime_globals) ==
    CASE e.k \in {"int", "str", "bool", "null"} -> TRUE
      [] e.k = "var" -> e.n \notin runtime_globals
      [] e.k = "un" -> is_compile_time_constant_expr(e.a, runtime_globals)
      [] e.k = "bin" ->
            /\ is_compile_time_constant_expr(e.l, runtime_globals)
            /\ is_compile_time_constant_expr(e.r, runtime_globals)
      [] e.k = "ifx" ->
            /\ is_compile_time_constant_expr(e.c, runtime_globals)
            /\ is_compile_time_constant_expr(e.t, runtime_globals)
            /\ is_compile_time_constant_expr(e.e, runtime_globals)
      [] e.k = "call" -> FALSE

RECURSIVE identify_runtime_globals(_, _, _)
identify_runtime_globals(globals, i, names) ==
    IF i > Len(globals) THEN names
    ELSE identify_runtime_globals(globals, i + 1,
             CASE globals[i].k = "var" -> names \cup {globals[i].n}
               [] globals[i].k = "const" ->
                     IF ~is_compile_time_constant_expr(globals[i].e, names)
                     THEN names \cup {globals[i].n} ELSE names
               [] OTHER -> names)

(* separate_globals: the symbol table it fills, and its two lists *)
RECURSIVE separate_globals(_, _, _, _)
separate_globals(globals, i, symbol_table, function_signatures) ==
    IF i > Len(globals) THEN symbol_table
    ELSE separate_globals(globals, i + 1,
             IF globals[i].k \in {"var", "const", "comptime"}
             THEN Put(symbol_table, globals[i].n,
                      IF globals[i].t # "" THEN globals[i].t
                      ELSE infer_expression_type(globals[i].e, symbol_table,
                                                 function_signatures))
             ELSE symbol_table,
             function_signatures)

is_runtime_global(global, names) ==
    global.k = "var" \/ (global.k = "const" /\ global.n \in names)

is_comptime_global(global, names) ==
    global.k = "comptime" \/ (global.k = "const" /\ global.n \notin names)

runtime_globals(globals, names) ==
    SelectSeq(globals, LAMBDA global : is_runtime_global(global, names))

RECURSIVE function_signatures(_, _)
function_signatures(functions, i) ==
    IF i = 0 THEN EmptyMap
    ELSE Put(function_signatures(functions, i - 1),
             functions[i].name, functions[i].return_type)

type_defs(globals) ==
    {globals[i].name : i \in {j \in DOMAIN globals : globals[j].k \in {"struct", "enum"}}}

(* emit_enum_defs and emit_struct_defs: the typedef and the C types it names *)
emit_type_def(def, defs) ==
    [k |-> "typedef", name |-> def.name,
     uses |-> IF def.k = "struct"
              THEN {map_type(def.fields[i].field_type, defs) : i \in DOMAIN def.fields}
              ELSE UNION {{map_type(def.variants[i].payload[j], defs) :
                              j \in DOMAIN def.variants[i].payload} :
                          i \in DOMAIN def.variants}]

emit_type_defs(globals, kind, defs) ==
    LET ds == SelectSeq(globals, LAMBDA global : global.k = kind)
    IN  [i \in DOMAIN ds |-> emit_type_def(ds[i], defs)]

(* emit_headers .. emit_struct_defs of generate_program *)
emit_prologue(program, used, order) ==
    (IF used # {} THEN <<[k |-> "stdlib_decls", names |-> order]>> ELSE <<>>)
    \o emit_type_defs(program.globals, "enum", type_defs(program.globals))
    \o emit_type_defs(program.globals, "struct", type_defs(program.globals))

(* emit_global_decl (registers the variable) and emit_global_decls_only *)
emit_global(global, summit_type, comptime, g) ==
    Emitted(<<[k |-> "global", n |-> global.n, const |-> comptime,
               ctype |-> map_type(summit_type, g.type_defs), summit_type |-> summit_type,
               init |-> comptime,
               e |-> IF comptime THEN generate_expr(global.e, g) ELSE [k |-> "comment"]]>>,
            IF comptime THEN Register(g, global.n, summit_type) ELSE g)

(* emit_comptime_globals and emit_runtime_global_decls, one pass each *)
RECURSIVE emit_globals(_, _, _, _, _)
emit_globals(globals, i, comptime, names, acc) ==
    IF i > Len(globals) THEN acc
    ELSE emit_globals(globals, i + 1, comptime, names,
             IF \/ comptime /\ is_comptime_global(globals[i], names)
                \/ ~comptime /\ is_runtime_global(globals[i], names)
             THEN LET G == emit_global(globals[i], resolve_type(globals[i], acc.g),
                                       comptime, acc.g)
                  IN  Emitted(acc.c \o G.c, G.g)
             ELSE acc)

is_external(func) == Len(func.body) = 0 /\ func.extern

(* emit_external_func_decl and emit_func_decl *)
emit_func_decl(func, defs) ==
    [k |-> IF is_external(func) THEN "extern" ELSE "func_decl", name |-> func.name,
     uses |-> {map_type(func.return_type, defs)}
              \cup {map_type(func.params[i].param_type, defs) : i \in DOMAIN func.params}]

emit_func_decls(functions, acc) ==
    LET external_funcs == SelectSeq(functions, is_external)
        regular_funcs == SelectSeq(functions, LAMBDA func : ~is_external(func))
    IN  Emitted(acc.c
                \o [i \in DOMAIN external_funcs |->
                        emit_func_decl(external_funcs[i], acc.g.type_defs)]
                \o [i \in DOMAIN regular_funcs |->
                        emit_func_decl(regular_funcs[i], acc.g.type_defs)],
                acc.g)

CFunc(name, body) == [k |-> "func", name |-> name, body |-> body]

RECURSIVE param_table(_, _)
param_table(params, i) ==
    IF i = 0 THEN EmptyMap
    ELSE Put(param_table(params, i - 1), params[i].name, params[i].param_type)

(* generate_func: the symbol table is cleared and holds the parameters *)
generate_func(func, acc) ==
    IF Len(func.body) = 0 THEN acc
    ELSE LET B == generate_block(func.body,
                      [acc.g EXCEPT !.symbol_table = param_table(func.params,
                                                                 Len(func.params))])
         IN  Emitted(Append(acc.c, CFunc(func.name, B.c)), B.g)

RECURSIVE generate_funcs(_, _, _)
generate_funcs(functions, i, acc) ==
    IF i > Len(functions) THEN acc
    ELSE generate_funcs(functions, i + 1,
             IF is_external(functions[i]) THEN acc ELSE generate_func(functions[i], acc))

(* emit_global_init: the assignment name = value of a runtime global *)
emit_global_init(globals, g) ==
    [i \in DOMAIN globals |->
        [k |-> "global_init", n |-> globals[i].n, e |-> generate_expr(globals[i].e, g)]]

exit(code) == [k |-> "expr", e |-> CCall("syscall1", <<Var("SYS_exit"), code>>)]

emit_start_wrapper(has_global_init, linking_libc, signatures) ==
    IF linking_libc
    THEN (IF has_global_init THEN <<[k |-> "comment"]>> ELSE <<>>)
    ELSE <<CFunc("_start",
               (IF has_global_init
                THEN <<[k |-> "expr", e |-> CCall("__init_globals", <<>>)]>> ELSE <<>>)
               \o (IF signatures["main"] = "void"
                   THEN <<[k |-> "expr", e |-> CCall("main", <<>>)], exit(IntLit(Zero))>>
                   ELSE <<CDecl(FALSE, "int8_t", "", "exit_code", CCall("main", <<>>)),
                          exit(Var("exit_code"))>>))>>

emit_synthetic_start(program, linking_libc, globals, acc) ==
    LET B == generate_block(program.statements, acc.g)
    IN  Emitted(Append(acc.c,
                   IF linking_libc
                   THEN CFunc("main", emit_global_init(globals, acc.g) \o B.c
                                      \o <<[k |-> "return", e |-> IntLit(Zero)]>>)
                   ELSE CFunc("_start", emit_global_init(globals, acc.g) \o B.c
                                        \o <<exit(IntLit(Zero))>>)),
                B.g)

has_main(functions) ==
    \E i \in DOMAIN functions : ~is_external(functions[i]) /\ functions[i].name = "main"

generate_main_or_funcs(program, linking_libc, globals, acc) ==
    IF Len(program.statements) > 0 /\ ~has_main(program.functions)
    THEN emit_synthetic_start(program, linking_libc, globals, acc)
    ELSE LET F == generate_funcs(program.functions, 1,
                      IF has_main(program.functions) /\ Len(globals) > 0
                      THEN Emitted(Append(acc.c, CFunc("__init_globals",
                                                       emit_global_init(globals, acc.g))),
                                   acc.g)
                      ELSE acc)
         IN  IF has_main(program.functions)
             THEN Emitted(F.c \o emit_start_wrapper(Len(globals) > 0, linking_libc,
                                                    acc.g.function_signatures), F.g)
             ELSE F

(* generate_program once the runtime globals are identified and the        *)
(* collector C has run over the program                                    *)
emit_program(program, linking_libc, names, C, order) ==
    generate_main_or_funcs(program, linking_libc, runtime_globals(program.globals, names),
        emit_func_decls(program.functions,
            emit_globals(program.globals, 1, FALSE, names,
                emit_globals(program.globals, 1, TRUE, names,
                    Emitted(emit_prologue(program, C.used, order),
                            [symbol_table |-> C.symbol_table,
                             function_signatures |->
                                 function_signatures(program.functions,
                                                     Len(program.functions)),
                             type_defs |-> type_defs(program.globals)]))))).c

(* the stdlib functions the collector finds used in the program *)
used_stdlib_functions(program) ==
    collect_stdlib_usage(program,
        separate_globals(program.globals, 1, EmptyMap,
            function_signatures(program.functions, Len(program.functions))))

(* emit_stdlib_decls iterates over a HashSet of the default hasher, whose  *)
(* order differs from one process to the next: any order of the names      *)
(* emit_decl writes a declaration for                                      *)
iteration_orders(S) ==
    {order \in [1..Cardinality(S) -> S] :
        \A i, j \in 1..Cardinality(S) : order[i] = order[j] => i = j}

generate_program(program, linking_libc, order) ==
    [emitted |-> TRUE,
     items |-> emit_program(program, linking_libc,
                   identify_runtime_globals(program.globals, 1, {}),
                   used_stdlib_functions(program), order)]

(* compiler/compilation_pipeline.rs: backend::generate after a successful  *)
(* analysis; link_libs holds "c" when libc is set                          *)
Emit ==
    /\ phase = "analyzed"
    /\ \E order \in iteration_orders(used_stdlib_functions(prog).used \cap emit_decl) :
          cout' = generate_program(prog, libc, order)
    /\ phase' = "emitted"
    /\ UNCHANGED <<prog, libc, verdict, rt>>

(***************************************************************************)
(* Programs for the back end.  The statement under test is an un-annotated *)
(* declaration const v = e or a print of e, placed in a function           *)
(*   func help(): i32 { ret 1; }                                           *)
(*   func emit(a: Ta): void { ... }                                        *)
(* or at top level, next to a global g: u8 and two structs of which A has  *)
(* a field of type B.  The shapes are a program with main, a script of     *)
(* top-level statements, and a library of globals and functions.           *)
(***************************************************************************)
GenExprs ==
    {IntLit(One), BoolLit, Var("a"), Var("g"), Bin("add", Var("a"), Var("g")),
     Bin("lt", Var("a"), Var("a")), Un("not", BoolLit), Call(<<"help">>, <<>>, <<>>)}

GenForms == {"const", "println", "print {}", "read"}

GenStatement(form, e) ==
    CASE form = "const" -> ConstS("v", "", e)
      [] form = "println" -> ExprS(Call(<<"io", "println">>, <<>>, <<e>>))
      [] form = "print {}" -> ExprS(Call(<<"io", "print">>, <<>>, <<StrLit(1), e>>))
      [] form = "read" -> ConstS("v", "", Call(<<"io", "read">>, <<"i32">>, <<>>))

GenPlaces == {"body", "elseif", "when"}

GenPlace(place, st) == IF place = "body" THEN <<st>> ELSE <<Wrap(place, <<st>>)>>

StructB == Struct("B", <<Field("x", "i32")>>)

StructA == Struct("A", <<Field("b", "B")>>)

(* no global, or the global g of type u8, then no struct or the structs A  *)
(* and B in one of the two orders; A has a field of type B                 *)
GenGlobals(gk, order) ==
    (IF gk = "none" THEN <<>> ELSE <<[k |-> gk, n |-> "g", t |-> "u8", e |-> IntLit(One)]>>)
    \o (CASE order = "none" -> <<>>
          [] order = "A B" -> <<StructA, StructB>>
          [] order = "B A" -> <<StructB, StructA>>)

HelpFn == Func("help", <<>>, "i32", <<Return(IntLit(One))>>)

GenShapes == {"main", "script", "library"}

GenProgram(shape, globals, Ta, body) ==
    CASE shape = "main" ->
            parse_program({<<"io">>}, globals,
                          <<HelpFn, Func("emit", <<Param("a", Ta)>>, "void", body), MainFn>>)
      [] shape = "script" -> parse_program({<<"io">>}, globals \o body, <<HelpFn>>)
      [] shape = "library" ->
            parse_program({<<"io">>}, globals,
                          <<HelpFn, Func("emit", <<Param("a", Ta)>>, "void", body)>>)

InitGen ==
    /\ \E shape \in GenShapes, gk \in {"none", "var", "const"},
          order \in {"none", "A B", "B A"}, Ta \in {"i8", "u8", "bool"},
          form \in GenForms, e \in GenExprs, place \in GenPlaces :
          prog = GenProgram(shape, GenGlobals(gk, order), Ta,
                            GenPlace(place, GenStatement(form, e)))
    /\ libc \in BOOLEAN
    /\ phase = "parsed"
    /\ verdict = "none"
    /\ cout = NoC
    /\ rt = NoRt

NextGen == Analyze \/ Emit

SpecGen == InitGen /\ [][NextGen]_vars

(***************************************************************************)
(* What the emitted C calls: the names of the functions called in a C      *)
(* expression, in a C statement and in a sequence of C statements.         *)
(***************************************************************************)
RECURSIVE ExprCalls(_)
ExprCalls(e) ==
    CASE e.k = "ccall" -> {e.f} \cup UNION {ExprCalls(e.args[i]) : i \in DOMAIN e.args}
      [] e.k = "cseq" -> UNION {ExprCalls(e.es[i]) : i \in DOMAIN e.es}
      [] e.k = "bin" -> ExprCalls(e.l) \cup ExprCalls(e.r)
      [] e.k = "un" -> ExprCalls(e.a)
      [] e.k = "ifx" -> ExprCalls(e.c) \cup ExprCalls(e.t) \cup ExprCalls(e.e)
      [] OTHER -> {}

RECURSIVE StmtCalls(_)
BlockCalls(stmts) == UNION {StmtCalls(stmts[i]) : i \in DOMAIN stmts}

StmtCalls(st) ==
    CASE st.k \in {"decl", "assign", "field_assign", "add_assign", "return", "expr",
                   "global_init", "global"} -> ExprCalls(st.e)
      [] st.k = "if" ->
            ExprCalls(st.c) \cup BlockCalls(st.th) \cup BlockCalls(st.el)
            \cup UNION {ExprCalls(st.eifs[i].c) \cup BlockCalls(st.eifs[i].body) :
                        i \in DOMAIN st.eifs}
      [] st.k = "while" -> ExprCalls(st.c) \cup BlockCalls(st.body)
      [] st.k = "for" -> ExprCalls(st.start) \cup ExprCalls(st.end) \cup BlockCalls(st.body)
      [] st.k \in {"block", "func"} -> BlockCalls(st.body)
      [] st.k = "switch" ->
            ExprCalls(st.v)
            \cup UNION {ExprCalls(st.arms[i].label) \cup BlockCalls(st.arms[i].body) :
                        i \in DOMAIN st.arms}
      [] OTHER -> {}

(* the functions the C file defines itself or takes from freestanding.h *)
OwnFunctions ==
    {prog.functions[i].name : i \in DOMAIN prog.functions} \cup {"__init_globals", "syscall1"}

StdlibCalled == BlockCalls(cout.items) \ OwnFunctions

Elements(f) == {f[i] : i \in DOMAIN f}

StdlibDeclared ==
    UNION {Elements(cout.items[i].names) : i \in {j \in DOMAIN cout.items :
                                           cout.items[j].k = "stdlib_decls"}}

(* C4: every sm_std_io_* function the emitted C calls is declared in the   *)
(* prologue of the emitted C.                                              *)
C4_StdlibCallsDeclared ==
    (phase = "emitted") => StdlibCalled \subseteq StdlibDeclared

(* C8: every function with a body is forward-declared and, later in the    *)
(* file, defined, whatever the shape of the program.                       *)
C8_FunctionsDeclaredThenDefined ==
    (phase = "emitted") =>
        \A f \in DOMAIN prog.functions :
            Len(prog.functions[f].body) > 0 =>
                \E i, j \in DOMAIN cout.items :
                    /\ i < j
                    /\ cout.items[i].k = "func_decl"
                    /\ cout.items[i].name = prog.functions[f].name
                    /\ cout.items[j].k = "func"
                    /\ cout.items[j].name = prog.functions[f].name

(* the C type names an item of the file mentions *)
ItemUses(item) ==
    CASE item.k \in {"typedef", "extern", "func_decl"} -> item.uses
      [] item.k = "global" -> {item.ctype}
      [] OTHER -> {}

(* C9: the typedef of a struct or an enum comes before every item of the   *)
(* file that uses its name.                                                *)
C9_TypedefsPrecedeUses ==
    (phase = "emitted") =>
        \A j \in DOMAIN cout.items :
            \A T \in ItemUses(cout.items[j]) \cap type_defs(prog.globals) :
                \E i \in 1..(j - 1) :
                    cout.items[i].k = "typedef" /\ cout.items[i].name = T

(* the analyzer as analyze_program leaves it when it turns to the          *)
(* functions, and the scope analyze_func gives the body of a function      *)
RegisteredAnalyzer(p) ==
    register_functions(p.functions, 1,
        analyze_globals(p.statements, 1,
            analyze_globals(p.globals, 1,
                register_types(p.globals, 1, NewAnalyzer(p.imports)))))

BodyScope(func, A) ==
    insert_params(func.params, 1,
        [r |-> "ok", scope |-> A.global_scope, mut |-> A.global_mutability]).scope

(* the function emit and what the C file defines for it *)
EmitFn == prog.functions[2]

EmitC == LET j == CHOOSE j \in DOMAIN cout.items :
                     cout.items[j].k = "func" /\ cout.items[j].name = "emit"
         IN  cout.items[j]

DeclaresV ==
    /\ Len(prog.functions) >= 2
    /\ EmitFn.name = "emit"
    /\ EmitFn.body[1].k = "const"

(* C10: the type the emitter gives the un-annotated const v = e at the     *)
(* head of a function body is the type the analyzer inferred for e.        *)
C10_EmitterTypeIsAnalyzerType ==
    (phase = "emitted" /\ DeclaresV) =>
        EmitC.body[1].summit_type =
            infer_type(EmitFn.body[1].e, BodyScope(EmitFn, RegisteredAnalyzer(prog)),
                       RegisteredAnalyzer(prog).functions)

(***************************************************************************)
(* Running the emitted C.  The state of a run is the call stack (function  *)
(* and position in its body), the store of the variables, and the log of   *)
(* the simple statements executed so far, each with the function it is in. *)
(* Objects of static storage start at zero or at their constant            *)
(* initializer; the programs run here have neither loops nor recursion,    *)
(* so one store for all variables is enough.                               *)
(***************************************************************************)
Truth(b) == IF b THEN 1 ELSE 0

Lookup(store, n) == IF n \in DOMAIN store THEN store[n] ELSE 0

BinValue(op, l, r) ==
    CASE op = "eq" -> Truth(l = r)
      [] op = "ne" -> Truth(l # r)
      [] op = "lt" -> Truth(l < r)
      [] op = "le" -> Truth(l <= r)
      [] op = "gt" -> Truth(l > r)
      [] op = "ge" -> Truth(l >= r)
      [] op = "and" -> Truth(l # 0 /\ r # 0)
      [] op = "or" -> Truth(l # 0 \/ r # 0)
      [] op = "add" -> l + r
      [] op = "sub" -> l - r

RECURSIVE eval(_, _)
eval(e, store) ==
    CASE e.k = "int" -> 2^(e.v[1]) + e.v[2]
      [] e.k = "var" -> Lookup(store, e.n)
      [] e.k = "bin" -> BinValue(e.op, eval(e.l, store), eval(e.r, store))
      [] e.k = "un" -> IF e.op = "not" THEN Truth(eval(e.a, store) = 0)
                       ELSE 0 - eval(e.a, store)
      [] OTHER -> 0

(* where control goes after a statement *)
Ctl(k) == [k |-> k, l |-> 0]

Goto(l) == [k |-> "goto", l |-> l]

Logged(S, k, n, v) == Append(S.log, [fn |-> S.fn, k |-> k, n |-> n, v |-> v])

Stored(S, k, n, v) ==
    [S EXCEPT !.store = Put(S.store, n, v), !.log = Logged(S, k, n, v)]

Min(X) == CHOOSE x \in X : \A y \in X : x <= y

LabelAt(stmts, l) == {j \in DOMAIN stmts : stmts[j].k = "label" /\ stmts[j].l = l}

(* the branch an if statement takes *)
Branch(st, store) ==
    IF eval(st.c, store) # 0 THEN st.th
    ELSE LET hits == {i \in DOMAIN st.eifs : eval(st.eifs[i].c, store) # 0}
         IN  IF hits # {} THEN st.eifs[Min(hits)].body ELSE st.el

(* the arm a switch statement jumps to; past the last arm when there is none *)
SwitchEntry(arms, v, store) ==
    LET hits == {i \in DOMAIN arms : /\ ~arms[i].default
                                     /\ arms[i].label.k # "comment"
                                     /\ eval(arms[i].label, store) = v}
        dflt == {i \in DOMAIN arms : arms[i].default}
    IN  IF hits # {} THEN Min(hits)
        ELSE IF dflt # {} THEN Min(dflt) ELSE Len(arms) + 1

RECURSIVE exec(_, _)
RECURSIVE exec_seq(_, _, _)
RECURSIVE exec_arms(_, _, _)
(* on from statement i of a block, S the state after it: the next          *)
(* statement, the label of the block a goto names, or out of the block     *)
after(stmts, i, S) ==
    CASE S.ctl.k = "next" -> exec_seq(stmts, i + 1, S)
      [] S.ctl.k = "goto" /\ LabelAt(stmts, S.ctl.l) # {} ->
            exec_seq(stmts, Min(LabelAt(stmts, S.ctl.l)), [S EXCEPT !.ctl = Ctl("next")])
      [] OTHER -> S

exec_seq(stmts, i, S) ==
    IF i > Len(stmts) THEN S ELSE after(stmts, i, exec(stmts[i], S))

(* on from arm i of a switch: into the next arm unless a break ended it *)
after_arm(arms, i, S) ==
    CASE S.ctl.k = "next" -> exec_arms(arms, i + 1, S)
      [] S.ctl.k = "break" -> [S EXCEPT !.ctl = Ctl("next")]
      [] OTHER -> S

exec_arms(arms, i, S) ==
    IF i > Len(arms) THEN S ELSE after_arm(arms, i, exec_seq(arms[i].body, 1, S))

exec(st, S) ==
    CASE st.k \in {"decl", "assign", "global_init"} ->
            Stored(S, st.k, st.n, eval(st.e, S.store))
      [] st.k = "add_assign" ->
            Stored(S, st.k, st.n, Lookup(S.store, st.n) + eval(st.e, S.store))
      [] st.k = "expr" -> [S EXCEPT !.log = Logged(S, st.k, "", 0)]
      [] st.k = "return" ->
            [S EXCEPT !.log = Logged(S, st.k, "", eval(st.e, S.store)),
                      !.ctl = Ctl("return")]
      [] st.k = "if" -> exec_seq(Branch(st, S.store), 1, S)
      [] st.k = "block" -> exec_seq(st.body, 1, S)
      [] st.k = "switch" ->
            exec_arms(st.arms, SwitchEntry(st.arms, eval(st.v, S.store), S.store), S)
      [] st.k = "goto" -> [S EXCEPT !.ctl = Goto(st.l)]
      [] st.k \in {"break", "continue"} -> [S EXCEPT !.ctl = Ctl(st.k)]
      [] OTHER -> S

(* the functions the C file defines, and the body of one of them *)
CFunctions ==
    {cout.items[i].name : i \in {j \in DOMAIN cout.items : cout.items[j].k = "func"}}

CBody(fn) ==
    cout.items[CHOOSE j \in DOMAIN cout.items :
                   cout.items[j].k = "func" /\ cout.items[j].name = fn].body

(* crt0 calls main of a hosted program; the linker enters a freestanding   *)
(* program at _start                                                       *)
Entry == IF libc THEN "main" ELSE "_start"

RECURSIVE static_store(_, _, _)
static_store(items, i, store) ==
    IF i > Len(items) THEN store
    ELSE static_store(items, i + 1,
             IF items[i].k = "global"
             THEN Put(store, items[i].n,
                      IF items[i].init THEN eval(items[i].e, store) ELSE 0)
             ELSE store)

Frame(fn, pc) == [fn |-> fn, pc |-> pc]

Top == rt.stack[Len(rt.stack)]

Here == CBody(Top.fn)[Top.pc]

(* the function a statement calls, when the statement is one call *)
Callee(st) ==
    IF st.k \in {"expr", "decl"} /\ st.e.k = "ccall" THEN st.e.f ELSE ""

Advance(stack) == [stack EXCEPT ![Len(stack)].pc = @ + 1]

Pop(stack) == SubSeq(stack, 1, Len(stack) - 1)

Start ==
    /\ phase = "emitted"
    /\ Entry \in CFunctions
    /\ rt' = [running |-> TRUE, stack |-> <<Frame(Entry, 1)>>,
              store |-> static_store(cout.items, 1, [x \in {} |-> 0]), log |-> <<>>]
    /\ phase' = "running"
    /\ UNCHANGED <<prog, libc, verdict, cout>>

Running == phase = "running" /\ Top.pc <= Len(CBody(Top.fn))

(* a statement that calls a function of the file *)
CallFn ==
    /\ Running
    /\ Callee(Here) \in CFunctions
    /\ rt' = [rt EXCEPT !.stack = Append(Advance(rt.stack), Frame(Callee(Here), 1))]
    /\ UNCHANGED <<prog, libc, verdict, cout, phase>>

(* syscall1(SYS_exit, code) *)
Exit ==
    /\ Running
    /\ Callee(Here) = "syscall1"
    /\ phase' = "exited"
    /\ UNCHANGED <<prog, libc, verdict, cout, rt>>

Leave(S) ==
    /\ rt' = [rt EXCEPT !.stack = Pop(rt.stack), !.store = S.store, !.log = S.log]
    /\ phase' = IF Len(rt.stack) = 1 THEN "exited" ELSE "running"

(* any other statement of the function on top of the stack *)
Execute ==
    /\ Running
    /\ Callee(Here) \notin CFunctions \cup {"syscall1"}
    /\ LET S == exec(Here, [fn |-> Top.fn, store |-> rt.store, log |-> rt.log,
                            ctl |-> Ctl("next")])
       IN  IF S.ctl.k = "return" THEN Leave(S)
           ELSE /\ rt' = [rt EXCEPT !.stack = Advance(rt.stack), !.store = S.store,
                                    !.log = S.log]
                /\ phase' = phase
    /\ UNCHANGED <<prog, libc, verdict, cout>>

(* control reaches the closing brace of the function *)
FallOff ==
    /\ phase = "running"
    /\ Top.pc > Len(CBody(Top.fn))
    /\ Leave(rt)
    /\ UNCHANGED <<prog, libc, verdict, cout>>

(***************************************************************************)
(* The programs that are run.  The first family has no global, the runtime *)
(* global g, or g and the constant h initialized from it; its user code is *)
(* one statement, in main or at top level.  The second family is a main    *)
(* with one when statement over w whose case i assigns i to x and whose    *)
(* else block assigns 0 to x.                                              *)
(***************************************************************************)
Two == <<1, 0>>

Three == <<2, -1>>

RunGlobals(gk) ==
    CASE gk = "none" -> <<>>
      [] gk = "var" -> <<VarS("g", "i32", IntLit(One))>>
      [] gk = "const" -> <<VarS("g", "i32", IntLit(One)), ConstS("h", "i32", Var("g"))>>

RunStatement(form) ==
    IF form = "assign" THEN Assign("g", IntLit(Two))
    ELSE If(Bin("eq", IntLit(One), IntLit(One)), <<>>, <<>>, FALSE, <<>>)

RunProgram(shape, gk, form) ==
    IF shape = "main"
    THEN parse_program({}, RunGlobals(gk),
             <<Func("main", <<>>, "i8", <<RunStatement(form), Return(IntLit(Zero))>>)>>)
    ELSE parse_program({}, RunGlobals(gk) \o <<RunStatement(form)>>, <<>>)

MaxCases == 2

Patterns ==
    [single1 |-> Single(IntLit(One)), single3 |-> Single(IntLit(Three)),
     to |-> Range(IntLit(One), IntLit(Three)), through |-> Through(IntLit(Two), IntLit(Three))]

CaseLits == <<One, Two, Three, <<2, 0>>>>

WhenCases(ps, fs) ==
    [i \in DOMAIN ps |->
        Case(Patterns[ps[i]],
             <<Assign("x", IntLit(CaseLits[i]))>> \o (IF fs[i] THEN <<Fallthrough>> ELSE <<>>))]

WhenProgram(w, cases, hasElse) ==
    parse_program({}, <<>>,
        <<Func("main", <<>>, "i8",
               <<VarS("x", "i32", IntLit(Zero)), ConstS("w", "i32", IntLit(w)),
                 When(Var("w"), cases, hasElse,
                      IF hasElse THEN <<Assign("x", IntLit(Zero))>> ELSE <<>>),
                 Return(IntLit(Zero))>>)>>)

InitRun ==
    /\ \/ \E shape \in {"main", "script"}, gk \in {"none", "var", "const"},
             form \in {"assign", "if"} :
             prog = RunProgram(shape, gk, form)
       \/ \E n \in 1..MaxCases, w \in {Zero, One, Two, Three}, hasElse \in BOOLEAN :
             \E ps \in [1..n -> DOMAIN Patterns], fs \in [1..n -> BOOLEAN] :
                /\ \A i, j \in 1..n : ps[i] = ps[j] => i = j
                /\ prog = WhenProgram(w, WhenCases(ps, fs), hasElse)
    /\ libc \in BOOLEAN
    /\ phase = "parsed"
    /\ verdict = "none"
    /\ cout = NoC
    /\ rt = NoRt

NextRun == Analyze \/ Emit \/ Start \/ CallFn \/ Exit \/ Execute \/ FallOff

SpecRun == InitRun /\ [][NextRun]_vars

(* the runtime globals of the program *)
RuntimeGlobals == identify_runtime_globals(prog.globals, 1, {})

(* a logged statement of user code: of the body of main, or of the         *)
(* top-level statements the entry is synthesized from                      *)
UserCode(ev) ==
    /\ ev.k # "global_init"
    /\ ev.fn = IF has_main(prog.functions) THEN "main" ELSE Entry

(* C3: when a statement of user code executes, the initializer assignment  *)
(* of every runtime global has executed.                                   *)
C3_GlobalsInitializedBeforeUserCode ==
    rt.running =>
        \A i \in DOMAIN rt.log :
            UserCode(rt.log[i]) =>
                \A n \in RuntimeGlobals :
                    \E j \in 1..(i - 1) : rt.log[j].k = "global_init" /\ rt.log[j].n = n

(* the when statement of a program of the second family *)
HasWhen ==
    /\ Len(prog.functions) = 1
    /\ Len(prog.functions[1].body) = 4
    /\ prog.functions[1].body[3].k = "when"

TheWhen == prog.functions[1].body[3]

Matches(pat, v) ==
    IF pat.k = "single" THEN v = eval(pat.e, <<>>)
    ELSE /\ eval(pat.start, <<>>) <= v
         /\ IF pat.inclusive THEN v <= eval(pat.end, <<>>) ELSE v < eval(pat.end, <<>>)

(* the cases whose bodies run from case i on: case i, and the next one     *)
(* while the body just run ends with fallthrough                           *)
RECURSIVE RunFrom(_, _)
RunFrom(cases, i) ==
    <<i>> \o (IF has_fallthrough(cases[i]) /\ i < Len(cases)
              THEN RunFrom(cases, i + 1) ELSE <<>>)

(* what the when statement assigns to x, in order *)
Assigned(when, v) ==
    LET hits == {i \in DOMAIN when.cases : Matches(when.cases[i].pat, v)}
    IN  IF hits # {} THEN RunFrom(when.cases, Min(hits))
        ELSE IF when.hasElse THEN <<0>> ELSE <<>>

XTrace ==
    LET evs == SelectSeq(rt.log, LAMBDA ev : ev.k = "assign" /\ ev.n = "x")
    IN  [i \in DOMAIN evs |-> evs[i].v]

(* C5: the emitted C of a when statement runs the first matching case,     *)
(* goes on into the next case exactly when the body just run ends with     *)
(* fallthrough, and runs the else block exactly when no case matched.      *)
C5_WhenRunsFirstMatchThenFallthrough ==
    (phase = "exited" /\ HasWhen) =>
        XTrace = Assigned(TheWhen, eval(prog.functions[1].body[2].e, <<>>))

(***************************************************************************)
(* For loops with a step: main holds the step s and one loop               *)
(*     for v in start (to | through) end by step [where filter] { }        *)
(* whose step is a literal, a negated literal, or the variable s.          *)
(***************************************************************************)
ForSteps ==
    {IntLit(One), IntLit(Two), IntLit(<<63, 0>>), Un("neg", IntLit(One)),
     Un("neg", IntLit(Two)), Var("s")}

ForLoop(start, end, inclusive, step, hasFilter) ==
    [For("v", start, end, <<>>) EXCEPT !.inclusive = inclusive, !.hasStep = TRUE,
                                       !.step = step, !.hasFilter = hasFilter,
                                       !.filter = Bin("lt", Var("v"), IntLit(Three))]

ForProgram(loop) ==
    parse_program({}, <<>>,
        <<Func("main", <<>>, "i8",
               <<ConstS("s", "i32", IntLit(One)), loop, Return(IntLit(Zero))>>)>>)

InitFor ==
    /\ \E start \in {IntLit(Zero), IntLit(Three)}, end \in {IntLit(Zero), IntLit(Three)},
          inclusive \in BOOLEAN, step \in ForSteps, hasFilter \in BOOLEAN :
          prog = ForProgram(ForLoop(start, end, inclusive, step, hasFilter))
    /\ libc \in BOOLEAN
    /\ phase = "parsed"
    /\ verdict = "none"
    /\ cout = NoC
    /\ rt = NoRt

SpecFor == InitFor /\ [][NextGen]_vars

TheFor == prog.functions[1].body[2]

HasFor ==
    /\ Len(prog.functions) = 1
    /\ Len(prog.functions[1].body) = 3
    /\ prog.functions[1].body[2].k = "for"

(* the while statement the C of main has for the loop *)
TheWhile == CBody("main")[2].body[2]

(* a step written as a literal is a literal or a negated literal *)
NegativeLiteral(e) == e.k = "un" /\ e.op = "neg" /\ e.a.k = "int" /\ e.a.v # Zero

PositiveLiteral(e) == e.k = "int" /\ e.v # Zero

(* C11: the loop condition compares the loop variable with the end bound   *)
(* by < (<= when inclusive) for a positive literal step and for a          *)
(* non-literal step, and by > (>= when inclusive) for a negative literal   *)
(* step.                                                                   *)
C11_ConditionFollowsStepSign ==
    (phase = "emitted" /\ HasFor) =>
        TheWhile.c.op =
            IF NegativeLiteral(TheFor.step)
            THEN (IF TheFor.inclusive THEN "ge" ELSE "gt")
            ELSE (IF TheFor.inclusive THEN "le" ELSE "lt")

(***************************************************************************)
(* Compiling one source twice.  The programs have a main with two          *)
(* statements that use io, or a script with them in a block.               *)
(***************************************************************************)
TwiceForms == {"println bool", "println int", "print", "read"}

TwiceStatement(form, n) ==
    CASE form = "println bool" -> ExprS(Call(<<"io", "println">>, <<>>, <<BoolLit>>))
      [] form = "println int" -> ExprS(Call(<<"io", "println">>, <<>>, <<IntLit(One)>>))
      [] form = "print" -> ExprS(Call(<<"io", "print">>, <<>>, <<StrLit(0)>>))
      [] form = "read" -> ConstS(n, "", Call(<<"io", "read">>, <<"i32">>, <<>>))

TwiceProgram(shape, imports, first, second) ==
    IF shape = "main"
    THEN parse_program(imports, <<>>,
             <<Func("main", <<>>, "i8",
                    <<TwiceStatement(first, "a"), TwiceStatement(second, "b"),
                      Return(IntLit(Zero))>>)>>)
    ELSE parse_program(imports,
             <<ExprS(Call(<<"io", "print">>, <<>>, <<StrLit(0)>>)),
               If(BoolLit, <<TwiceStatement(first, "a"), TwiceStatement(second, "b")>>,
                  <<>>, FALSE, <<>>)>>, <<>>)

InitTwice ==
    /\ \E shape \in {"main", "script"}, imports \in {{}, {<<"io">>}},
          first \in TwiceForms, second \in TwiceForms :
          prog = TwiceProgram(shape, imports, first, second)
    /\ libc \in BOOLEAN
    /\ phase = "parsed"
    /\ verdict = "none"
    /\ cout = NoC
    /\ rt = NoRt

(* the compiler is started again on the same source and the same flags;   *)
(* rt keeps what the first process gave                                    *)
Again ==
    /\ phase \in {"emitted", "rejected"}
    /\ rt = NoRt
    /\ rt' = [running |-> FALSE, verdict |-> verdict, cout |-> cout]
    /\ phase' = "parsed"
    /\ verdict' = "none"
    /\ cout' = NoC
    /\ UNCHANGED <<prog, libc>>

NextTwice == Analyze \/ Emit \/ Again

SpecTwice == InitTwice /\ [][NextTwice]_vars

CompiledTwice == phase \in {"emitted", "rejected"} /\ rt # NoRt

(* C12: two compilations of one source give the same result, the same C    *)
(* output or the same error.                                               *)
C12_SameSourceSameResult ==
    CompiledTwice => (rt.verdict = verdict /\ rt.cout = cout)

(***************************************************************************)
(* Calls of a local function:                                              *)
(*     func f(x: Tp): Tp { ret x; }                                        *)
(*     func main(): i8 { (var | const) y: Ta = 5; f(arg); ret 0; }         *)
(* with arg the variable y or an integer literal.                          *)
(***************************************************************************)
Five == <<2, 1>>

CallArgs == {Var("y")} \cup {IntLit(v) : v \in {Five, <<7, 0>>, <<8, 0>>, <<31, 0>>, <<64, -1>>}}

CallProgram(dk, Ta, Tp, arg) ==
    parse_program({}, <<>>,
        <<Func("f", <<Param("x", Tp)>>, Tp, <<Return(Var("x"))>>),
          Func("main", <<>>, "i8",
               <<[k |-> dk, n |-> "y", t |-> Ta, e |-> IntLit(Five)],
                 ExprS(Call(<<"f">>, <<>>, <<arg>>)), Return(IntLit(Zero))>>)>>)

InitCall ==
    /\ \E dk \in {"var", "const"}, Ta \in IntTypes, Tp \in IntTypes, arg \in CallArgs :
          prog = CallProgram(dk, Ta, Tp, arg)
    /\ libc \in BOOLEAN
    /\ phase = "parsed"
    /\ verdict = "none"
    /\ cout = NoC
    /\ rt = NoRt

SpecCall == InitCall /\ [][NextSem]_vars

IsCallProgram ==
    /\ Len(prog.functions) = 2
    /\ prog.functions[1].name = "f"
    /\ Len(prog.functions[2].body) = 3

TheArg == prog.functions[2].body[2].e.args[1]

(* the type of the argument and the type of the parameter *)
ArgType ==
    IF TheArg.k = "var" THEN prog.functions[2].body[1].t
    ELSE infer_int_literal_type(TheArg.v)

ParamType == prog.functions[1].params[1].param_type

(* C13: an argument of a signed type for a parameter of a larger unsigned  *)
(* type is accepted only if it is an integer literal that fits the         *)
(* parameter; a wider argument, or one of the same size and the other      *)
(* signedness, is rejected.                                                *)
C13_CallArgumentConversions ==
    (Analyzed /\ IsCallProgram) =>
        /\ (/\ is_signed(ArgType) /\ ~is_signed(ParamType)
            /\ get_type_size(ArgType) < get_type_size(ParamType)
            /\ verdict = "ok")
           => (TheArg.k = "int" /\ LitLE(TheArg.v, TypeMax(ParamType)))
        /\ (\/ get_type_size(ArgType) > get_type_size(ParamType)
            \/ /\ get_type_size(ArgType) = get_type_size(ParamType)
               /\ is_signed(ArgType) # is_signed(ParamType))
           => verdict # "ok"

(* scenario S4 *)
IsS4 == IsCallProgram /\ prog = CallProgram("var", "i64", "u32", Var("y"))

(* C14: the S4 program is rejected with the would-truncate type error of   *)
(* the call f(y).                                                          *)
C14_S4FailsWithWouldTruncate ==
    (Analyzed /\ IsS4) => verdict = "TypeError: would truncate"

(* scenario S4 with y declared const *)
IsS4Const == IsCallProgram /\ prog = CallProgram("const", "i64", "u32", Var("y"))

(* C14 as the code has it: the S4 program is rejected, and the error is    *)
(* that the var y of main is never mutated, which analyze_func reports     *)
(* before it analyses any statement of main; the same program with y       *)
(* declared const is rejected with the would-truncate type error of the    *)
(* call f(y).                                                              *)
C14_S4FailsWithNeverMutated ==
    /\ (Analyzed /\ IsS4) =>
          (phase = "rejected" /\ verdict = "Variable is never mutated")
    /\ (Analyzed /\ IsS4Const) =>
          (phase = "rejected" /\ verdict = "TypeError: would truncate")

C14_Witness == phase = "rejected" /\ (IsS4 \/ IsS4Const)

(***************************************************************************)
(* Programs about the top level: up to MaxTop global declarations, at most *)
(* one executable top-level statement, and up to three functions.  The     *)
(* globals are structs, enums and var / const / comptime declarations of   *)
(* the names g and h, one of them initialized with a call of f.            *)
(***************************************************************************)
MaxTop == 2

StructS == Struct("S", <<Field("x", "i32")>>)

EnumE == Enum("E", <<Variant("V", <<>>)>>)

FnF == Func("f", <<>>, "u8", <<Return(IntLit(One))>>)

TopGlobals ==
    {StructS, EnumE,
     ConstS("g", "u8", IntLit(One)), VarS("g", "u8", IntLit(Two)),
     ComptimeS("g", "u8", IntLit(One)), ConstS("h", "u8", Call(<<"f">>, <<>>, <<>>))}

TopStatements == {<<>>, <<ExprS(Call(<<"f">>, <<>>, <<>>))>>, <<While(BoolLit, <<>>)>>}

TopFunctions ==
    {<<>>, <<MainFn>>, <<FnF>>, <<FnF, MainFn>>, <<MainFn, FnF>>,
     <<FnF, FnF, MainFn>>, <<MainFn, MainFn>>}

SeqsUpTo(S, n) == UNION {[1..m -> S] : m \in 0..n}

InitTop ==
    /\ \E gs \in SeqsUpTo(TopGlobals, MaxTop), ss \in TopStatements, fs \in TopFunctions :
          prog = Program({}, gs, ss, fs)
    /\ libc \in BOOLEAN
    /\ phase = "parsed"
    /\ verdict = "none"
    /\ cout = NoC
    /\ rt = NoRt

SpecTop == InitTop /\ [][NextSem]_vars

IsTopProgram == prog.imports = {} /\ Len(prog.statements) <= 1 /\ Len(prog.globals) <= MaxTop

(* the names of the structs, of the enums, of the global variables *)
NamesOf(globals, kinds) ==
    SelectSeq(globals, LAMBDA g : g.k \in kinds)

HasDuplicateVar(globals) ==
    \E i, j \in 1..Len(globals) :
        /\ i < j
        /\ globals[i].k \in {"var", "const", "comptime"}
        /\ globals[j].k \in {"var", "const", "comptime"}
        /\ globals[i].n = globals[j].n

(* C15: a program with two functions, two structs, two enums or two        *)
(* top-level variable declarations of the same name is rejected.           *)
C15_DuplicateNamesRejected ==
    (/\ Analyzed /\ IsTopProgram
     /\ \/ HasDuplicate(prog.functions)
        \/ HasDuplicate(NamesOf(prog.globals, {"struct"}))
        \/ HasDuplicate(NamesOf(prog.globals, {"enum"}))
        \/ HasDuplicateVar(prog.globals))
    => verdict # "ok"

DefinesMain == \E i \in 1..Len(prog.functions) : prog.functions[i].name = "main"

HasExecutable == \E i \in 1..Len(prog.statements) : ~is_declaration(prog.statements[i])

MainWithStatements == DefinesMain /\ HasExecutable

EmptyProgram == ~DefinesMain /\ Len(prog.statements) = 0 /\ Len(prog.globals) = 0

ShapeErrors ==
    {"Cannot have top-level executable statements when main is defined",
     "No main function defined and no top-level statements"}

(* C16: a program with a main and an executable top-level statement is     *)
(* rejected, a program with no main, no top-level statements and no        *)
(* globals is rejected, and no other program is rejected for its           *)
(* top-level shape.                                                        *)
C16_TopLevelShape ==
    (Analyzed /\ IsTopProgram) =>
        /\ MainWithStatements => verdict # "ok"
        /\ EmptyProgram => verdict # "ok"
        /\ verdict \in ShapeErrors => (MainWithStatements \/ EmptyProgram)

C16_Witness ==
    /\ phase = "rejected" /\ IsTopProgram /\ MainWithStatements
    /\ verdict = "Cannot have top-level executable statements when main is defined"

DefinesF == \E i \in 1..Len(prog.functions) : prog.functions[i].name = "f"

(* a global whose initializer calls f *)
GlobalCallsF ==
    \E i \in 1..Len(prog.globals) :
        /\ prog.globals[i].k \in {"var", "const"}
        /\ prog.globals[i].e.k = "call"
        /\ prog.globals[i].e.path = <<"f">>

(* C18: the functions are registered before any global initializer is      *)
(* analysed, so the call of a declared function in the initializer of a    *)
(* global is not reported as undefined.                                    *)
C18_GlobalInitializerSeesFunctions ==
    (Analyzed /\ IsTopProgram /\ GlobalCallsF /\ DefinesF) =>
        verdict # "NameError: undefined function"

(***************************************************************************)
(* Programs about imports:                                                 *)
(*     import ...;  func main(): i8 { <call>; ret 0; }                     *)
(* with the call one of the io functions or a function of the module m,    *)
(* under every set of imports drawn from ImportPaths.                      *)
(***************************************************************************)
ImportPaths == {<<"io">>, <<"std", "io">>, <<"std">>, <<"m">>, <<"std", "m">>}

QualifiedCalls ==
    {Call(<<"io", "read">>, <<"i32">>, <<>>),
     Call(<<"std", "io", "read">>, <<"u8">>, <<>>),
     Call(<<"io", "readln">>, <<>>, <<>>),
     Call(<<"std", "io", "readln">>, <<>>, <<>>),
     Call(<<"io", "print">>, <<>>, <<StrLit(0)>>),
     Call(<<"io", "println">>, <<>>, <<StrLit(0)>>),
     Call(<<"std", "io", "println">>, <<>>, <<StrLit(0)>>),
     Call(<<"m", "f">>, <<>>, <<>>),
     Call(<<"std", "m", "f">>, <<>>, <<IntLit(One)>>)}

QualProgram(imports, call) ==
    parse_program(imports, <<>>,
        <<Func("main", <<>>, "i8", <<ExprS(call), Return(IntLit(Zero))>>)>>)

InitQual ==
    /\ \E imports \in SUBSET ImportPaths, call \in QualifiedCalls :
          prog = QualProgram(imports, call)
    /\ libc \in BOOLEAN
    /\ phase = "parsed"
    /\ verdict = "none"
    /\ cout = NoC
    /\ rt = NoRt

SpecQual == InitQual /\ [][NextSem]_vars

IsQualProgram ==
    /\ Len(prog.functions) = 1
    /\ Len(prog.functions[1].body) = 2
    /\ prog.functions[1].body[1].k = "expr"
    /\ prog.functions[1].body[1].e \in QualifiedCalls

TheCall == prog.functions[1].body[1].e

(* the program imports the module path that leads to the called function: *)
(* a prefix of the path, or std::X for a call X::f                         *)
ImportsLeadingPath(path) ==
    \/ \E i \in 1..(Len(path) - 1) : SubSeq(path, 1, i) \in prog.imports
    \/ Len(path) = 2 /\ <<"std", path[1]>> \in prog.imports

(* C19: a call with a qualified path, the io functions included, is        *)
(* accepted only if the program imports the leading module path.           *)
C19_QualifiedCallsNeedImport ==
    (Analyzed /\ IsQualProgram /\ verdict = "ok") => ImportsLeadingPath(TheCall.path)

(***************************************************************************)
(* Declarations with an explicit type and a literal initializer: a global  *)
(* or a local of main,                                                     *)
(*     (const | comptime) x: T = <literal>;                                *)
(* with T an integer type or bool and the literal an integer literal, a    *)
(* negated integer literal or a boolean literal.                           *)
(***************************************************************************)
LitTypes == IntTypes \cup {"bool"}

LitInits == LiteralValues \cup {BoolLit}

LitProgram(place, dk, T, e) ==
    IF place = "global"
    THEN parse_program({}, <<[k |-> dk, n |-> "x", t |-> T, e |-> e]>>, <<MainFn>>)
    ELSE parse_program({}, <<>>,
             <<Func("main", <<>>, "i8",
                    <<[k |-> dk, n |-> "x", t |-> T, e |-> e], Return(IntLit(Zero))>>)>>)

InitLit ==
    /\ \E place \in {"global", "local"}, dk \in {"const", "comptime"},
          T \in LitTypes, e \in LitInits :
          prog = LitProgram(place, dk, T, e)
    /\ libc \in BOOLEAN
    /\ phase = "parsed"
    /\ verdict = "none"
    /\ cout = NoC
    /\ rt = NoRt

SpecLit == InitLit /\ [][NextSem]_vars

IsLitProgram ==
    /\ Len(prog.functions) = 1
    /\ prog.functions[1].name = "main"
    /\ \/ Len(prog.globals) = 1 /\ prog.globals[1].k \in {"const", "comptime"}
       \/ Len(prog.globals) = 0 /\ Len(prog.functions[1].body) = 2

TheDecl ==
    IF Len(prog.globals) = 1 THEN prog.globals[1] ELSE prog.functions[1].body[1]

(* the literal e is in the range of the type T *)
InRange(e, T) ==
    CASE e.k = "int" ->
            IF T = "bool" THEN e.v \in {Zero, One} ELSE LitLE(e.v, TypeMax(T))
      [] e.k = "un" -> T \in SignedTypes /\ LitLE(e.a.v, <<get_type_size(T) - 1, 0>>)
      [] e.k = "bool" -> T = "bool"

(* C17: a declaration with an explicit type and a literal initializer is   *)
(* accepted exactly when the literal is in the range of the type.          *)
C17_LiteralDeclarationAcceptedIffInRange ==
    (Analyzed /\ IsLitProgram) =>
        ((verdict = "ok") <=> InRange(TheDecl.e, TheDecl.t))

(***************************************************************************)
(* Programs about the bounds of a for loop:                                *)
(*     for v in <start> to <end> [by <step>] { }                           *)
(* at top level, directly in main, or in main inside one block of each     *)
(* kind, the three expressions being integer, boolean or string literals.  *)
(***************************************************************************)
BoundExprs == {IntLit(One), Un("neg", IntLit(One)), BoolLit, StrLit(0)}

BoundLoop(start, end, hasStep, step) ==
    [For("v", start, end, <<>>) EXCEPT !.hasStep = hasStep,
                                       !.step = IF hasStep THEN step ELSE IntLit(One)]

LoopPlaces == {"top", "topnested", "main"} \cup BlockKinds

LoopProgram(place, loop) ==
    CASE place = "top" -> parse_program({}, <<loop>>, <<>>)
      [] place = "topnested" -> parse_program({}, <<While(BoolLit, <<loop>>)>>, <<>>)
      [] place = "main" ->
            parse_program({}, <<>>,
                <<Func("main", <<>>, "i8", <<loop, Return(IntLit(Zero))>>)>>)
      [] OTHER ->
            parse_program({}, <<>>,
                <<Func("main", <<>>, "i8", <<Wrap(place, <<loop>>), Return(IntLit(Zero))>>)>>)

InitLoop ==
    /\ \E place \in LoopPlaces, start \in BoundExprs, end \in BoundExprs,
          hasStep \in BOOLEAN, step \in BoundExprs :
          prog = LoopProgram(place, BoundLoop(start, end, hasStep, step))
    /\ libc \in BOOLEAN
    /\ phase = "parsed"
    /\ verdict = "none"
    /\ cout = NoC
    /\ rt = NoRt

SpecLoop == InitLoop /\ [][NextSem]_vars

(* the loops of a statement list, at any depth *)
RECURSIVE LoopsOf(_)
LoopsOf(stmts) ==
    UNION {LET st == stmts[i]
           IN  CASE st.k = "for" -> {st} \cup LoopsOf(st.body)
                 [] st.k = "while" -> LoopsOf(st.body)
                 [] st.k = "if" ->
                       LoopsOf(st.th) \cup LoopsOf(st.el)
                       \cup UNION {LoopsOf(st.eifs[j].body) : j \in DOMAIN st.eifs}
                 [] st.k = "when" ->
                       LoopsOf(st.el)
                       \cup UNION {LoopsOf(st.cases[j].body) : j \in DOMAIN st.cases}
                 [] OTHER -> {}
           : i \in DOMAIN stmts}

ProgramLoops ==
    LoopsOf(prog.statements)
    \cup UNION {LoopsOf(prog.functions[i].body) : i \in DOMAIN prog.functions}

IsLoopProgram == Len(prog.globals) = 0 /\ Len(prog.functions) <= 1

IntegerLiteral(e) == e.k = "int" \/ (e.k = "un" /\ e.a.k = "int")

NonIntegerBound(loop) ==
    \/ ~IntegerLiteral(loop.start)
    \/ ~IntegerLiteral(loop.end)
    \/ loop.hasStep /\ ~IntegerLiteral(loop.step)

(* C20: a for loop whose start, end or step is not of an integer type is   *)
(* rejected wherever it appears.                                           *)
C20_ForBoundsAreIntegers ==
    (Analyzed /\ IsLoopProgram /\ \E loop \in ProgramLoops : NonIntegerBound(loop))
        => verdict # "ok"

(***************************************************************************)
(* The two compile-time predicates applied to one expression.  The         *)
(* expression is an atom, one operator over atoms, or one operator over    *)
(* such an expression; g is a const global, r a var global, l a local.     *)
(* The emitter's predicate has arms for literals, variables, unary,        *)
(* binary, if-expression and call, and is applied to expressions made of   *)
(* those.                                                                  *)
(***************************************************************************)
CallF == Call(<<"f">>, <<>>, <<>>)

ConstAtoms == {IntLit(One), Var("g"), Var("r"), Var("l"), CallF}

Built(S, T) ==
    {Un("neg", a) : a \in S}
    \cup {Bin("add", a, b) : a \in S, b \in T}
    \cup {IfExpr(a, b, IntLit(One)) : a \in S, b \in T}
    \cup {IfExpr(BoolLit, IntLit(One), a) : a \in S}
    \cup {WhenExpr(a, <<WhenExprCase(Single(IntLit(One)), b)>>, IntLit(One)) : a \in S, b \in T}
    \cup {WhenExpr(IntLit(One), <<WhenExprCase(Single(a), IntLit(One))>>, b) : a \in S, b \in T}
    \cup {WhenExpr(IntLit(One), <<WhenExprCase(Range(a, b), IntLit(One))>>, IntLit(One)) :
             a \in S, b \in T}
    \cup {StructInit("S", <<StructFieldInit("x", a)>>) : a \in S}
    \cup {StructInit("S", <<StructFieldInit("x", b), StructFieldInit("y", a)>>) : a \in S, b \in T}
    \cup {FieldAccess(a, "x") : a \in S}

ConstExprs == ConstAtoms \cup Built(ConstAtoms, ConstAtoms) \cup Built(Built(ConstAtoms, {IntLit(One)}), {Var("g"), CallF})

ConstScope == [x \in {"g", "r"} |-> "i32"]

RuntimeNames == {"r"}

EmitterKinds == {"int", "str", "bool", "null", "var", "un", "bin", "ifx", "call"}

(* the operands of an expression *)
Operands(e) ==
    CASE e.k = "un" -> {e.a}
      [] e.k = "bin" -> {e.l, e.r}
      [] e.k = "ifx" -> {e.c, e.t, e.e}
      [] e.k = "whenx" ->
            {e.value, e.else_expr}
            \cup {e.cases[i].result : i \in DOMAIN e.cases}
            \cup UNION {IF e.cases[i].pattern.k = "single"
                        THEN {e.cases[i].pattern.e}
                        ELSE {e.cases[i].pattern.start, e.cases[i].pattern.end}
                        : i \in DOMAIN e.cases}
      [] e.k = "sinit" -> {e.fields[i].value : i \in DOMAIN e.fields}
      [] e.k = "field" -> {e.object}
      [] e.k = "call" -> {e.args[i] : i \in DOMAIN e.args}
      [] OTHER -> {}

RECURSIVE HasCall(_)
HasCall(e) == e.k = "call" \/ \E o \in Operands(e) : HasCall(o)

RECURSIVE EmitterHandles(_)
EmitterHandles(e) == e.k \in EmitterKinds /\ \A o \in Operands(e) : EmitterHandles(o)

InitConst ==
    /\ \E e \in ConstExprs : prog = [expr |-> e]
    /\ libc \in BOOLEAN
    /\ phase = "parsed"
    /\ verdict = "none"
    /\ cout = NoC
    /\ rt = NoRt

(* the analyzer and, where it has an arm for every node, the emitter       *)
(* classify the expression                                                 *)
Classify ==
    /\ phase = "parsed"
    /\ verdict' = [analyzer |-> is_compile_time_constant(prog.expr, ConstScope),
                   emitter |-> IF EmitterHandles(prog.expr)
                               THEN is_compile_time_constant_expr(prog.expr, RuntimeNames)
                               ELSE FALSE,
                   handled |-> EmitterHandles(prog.expr)]
    /\ phase' = "classified"
    /\ UNCHANGED <<prog, libc, cout, rt>>

NextConst == Classify

SpecConst == InitConst /\ [][NextConst]_vars

WiderTypes == IntTypes \cup {"bool"}

InitWider ==
    /\ \E A \in WiderTypes, B \in WiderTypes : prog = [A |-> A, B |-> B]
    /\ libc \in BOOLEAN
    /\ phase = "parsed"
    /\ verdict = "none"
    /\ cout = NoC
    /\ rt = NoRt

Widen ==
    /\ phase = "parsed"
    /\ verdict' = [ab |-> wider_type(prog.A, prog.B), ba |-> wider_type(prog.B, prog.A)]
    /\ phase' = "widened"
    /\ UNCHANGED <<prog, libc, cout, rt>>

NextWider == Widen

SpecWider == InitWider /\ [][NextWider]_vars

(* C22: wider_type(A, B) = wider_type(B, A), and the result is the operand *)
(* of larger bit width or, the widths being equal, the signed operand.     *)
C22_WiderTypeCommutes ==
    phase = "widened" =>
        /\ verdict.ab = verdict.ba
        /\ get_type_size(prog.A) > get_type_size(prog.B) => verdict.ab = prog.A
        /\ get_type_size(prog.B) > get_type_size(prog.A) => verdict.ab = prog.B
        /\ (get_type_size(prog.A) = get_type_size(prog.B) /\ is_signed(prog.A))
              => verdict.ab = prog.A
        /\ (get_type_size(prog.A) = get_type_size(prog.B) /\ is_signed(prog.B))
              => verdict.ab = prog.B

(***************************************************************************)
(* infer_int_literal_type applied to a literal.  The literals are the      *)
(* values 2^e - 1, 2^e and 2^e + 1 for every e up to MaxExp, up to the     *)
(* u128 maximum.                                                           *)
(***************************************************************************)
MaxExp == 128

InferValues == {<<e, d>> : e \in 0..MaxExp, d \in {-1, 0, 1}} \ {<<MaxExp, 0>>, <<MaxExp, 1>>}

InitInfer ==
    /\ \E v \in InferValues : prog = [v |-> v]
    /\ libc \in BOOLEAN
    /\ phase = "parsed"
    /\ verdict = "none"
    /\ cout = NoC
    /\ rt = NoRt

Infer ==
    /\ phase = "parsed"
    /\ verdict' = infer_int_literal_type(prog.v)
    /\ phase' = "inferred"
    /\ UNCHANGED <<prog, libc, cout, rt>>

NextInfer == Infer

SpecInfer == InitInfer /\ [][NextInfer]_vars

TypeOrder == <<"i8", "u8", "i16", "u16", "i32", "u32", "i64", "u64", "i128", "u128">>

(* C23: the type inferred for the literal v is the first type of TypeOrder *)
(* whose maximum is at least v.                                            *)
C23_InferredTypeIsFirstFit ==
    phase = "inferred" =>
        \E i \in DOMAIN TypeOrder :
            /\ verdict = TypeOrder[i]
            /\ LitLE(prog.v, TypeMax(TypeOrder[i]))
            /\ \A j \in 1..(i - 1) : ~LitLE(prog.v, TypeMax(TypeOrder[j]))

C23_Witness == phase = "inferred" /\ prog.v = <<63, 0>> /\ verdict = "u64"

(***************************************************************************)
(* String literals.  A character is a one-element name: the ordinary       *)
(* characters a, n, t, r, the backslash, the quote, and the bytes NL, TAB  *)
(* and CR.  The body of a literal is a sequence of at most MaxBody units,  *)
(* a unit being an ordinary character or one of the five escapes.          *)
(***************************************************************************)
MaxBody == 3

Backslash == "\\"

Quote == "\""

Units ==
    {<<"a">>, <<"n">>, <<"t">>, <<"r">>,
     <<Backslash, "n">>, <<Backslash, "t">>, <<Backslash, "r">>,
     <<Backslash, Backslash>>, <<Backslash, Quote>>}

RECURSIVE Flatten(_)
Flatten(units) == IF units = <<>> THEN <<>> ELSE Head(units) \o Flatten(Tail(units))

(* str::replace of a two-character pattern by one character: the matches *)
(* are found left to right and do not overlap                              *)
RECURSIVE replace(_, _, _)
replace(s, from, to) ==
    IF Len(s) = 0 THEN <<>>
    ELSE IF Len(s) >= 2 /\ SubSeq(s, 1, 2) = from
    THEN <<to>> \o replace(SubSeq(s, 3, Len(s)), from, to)
    ELSE <<Head(s)>> \o replace(Tail(s), from, to)

(* frontend/lexer/utils.rs: process_escapes *)
process_escapes(s) ==
    replace(replace(replace(replace(replace(s,
        <<Backslash, "n">>, "NL"),
        <<Backslash, "t">>, "TAB"),
        <<Backslash, "r">>, "CR"),
        <<Backslash, Backslash>>, Backslash),
        <<Backslash, Quote>>, Quote)

(* emitter/literal_emitter.rs: emit_string_literal, the text between and   *)
(* with the two quotes                                                     *)
RECURSIVE emit_chars(_)
emit_chars(s) ==
    IF Len(s) = 0 THEN <<>>
    ELSE (CASE Head(s) = Quote -> <<Backslash, Quote>>
            [] Head(s) = Backslash -> <<Backslash, Backslash>>
            [] Head(s) = "NL" -> <<Backslash, "n">>
            [] Head(s) = "CR" -> <<Backslash, "r">>
            [] Head(s) = "TAB" -> <<Backslash, "t">>
            [] OTHER -> <<Head(s)>>) \o emit_chars(Tail(s))

emit_string_literal(s) == <<Quote>> \o emit_chars(s) \o <<Quote>>

InitString ==
    /\ \E units \in SeqsUpTo(Units, MaxBody) : prog = [units |-> units]
    /\ libc \in BOOLEAN
    /\ phase = "parsed"
    /\ verdict = "none"
    /\ cout = NoC
    /\ rt = NoRt

(* tokenize_string: the token of the literal whose body is the units *)
Lex ==
    /\ phase = "parsed"
    /\ verdict' = process_escapes(Flatten(prog.units))
    /\ phase' = "lexed"
    /\ UNCHANGED <<prog, libc, cout, rt>>

EmitString ==
    /\ phase = "lexed"
    /\ cout' = [emitted |-> FALSE, literal |-> emit_string_literal(verdict)]
    /\ phase' = "written"
    /\ UNCHANGED <<prog, libc, verdict, rt>>

NextString == Lex \/ EmitString

SpecString == InitString /\ [][NextString]_vars

(* the byte of one unit *)
UnitByte(u) ==
    CASE u = <<Backslash, "n">> -> "NL"
      [] u = <<Backslash, "t">> -> "TAB"
      [] u = <<Backslash, "r">> -> "CR"
      [] u = <<Backslash, Backslash>> -> Backslash
      [] u = <<Backslash, Quote>> -> Quote
      [] OTHER -> u[1]

Bytes(units) == [i \in 1..Len(units) |-> UnitByte(units[i])]

(* the bytes a C compiler reads from the text of a string literal *)
RECURSIVE CBytes(_)
CBytes(s) ==
    IF Len(s) = 0 THEN <<>>
    ELSE IF Head(s) = Backslash /\ Len(s) >= 2
    THEN <<UnitByte(SubSeq(s, 1, 2))>> \o CBytes(SubSeq(s, 3, Len(s)))
    ELSE <<Head(s)>> \o CBytes(Tail(s))

CDenotes(literal) == CBytes(SubSeq(literal, 2, Len(literal) - 1))

(* C24: the lexer's string is the body with each escape replaced by its    *)
(* byte, read left to right, and the C literal written for it denotes the  *)
(* same bytes.                                                             *)
C24_EscapesRoundTrip ==
    /\ phase \in {"lexed", "written"} => verdict = Bytes(prog.units)
    /\ phase = "written" => CDenotes(cout.literal) = Bytes(prog.units)

(***************************************************************************)
(* Programs about the scope after a block:                                 *)
(*     func main(): i8 { <outer x>  <block { inner }>  <probe>  ret 0; }   *)
(* outer declares x as a const or as an assigned var, or nothing; the      *)
(* block is of one of the ShadowKinds and declares y, or x again with      *)
(* another type and mutability; the probe reads x or y or assigns to x.    *)
(***************************************************************************)
ShadowKinds == BlockKinds \cup {"whenelse", "expect"}

ShadowWrap(kind, inner) ==
    CASE kind = "for" -> For("v", IntLit(Zero), IntLit(One), inner)
      [] kind = "whenelse" -> When(IntLit(One), <<Case(Single(IntLit(One)), <<>>)>>, TRUE, inner)
      [] kind = "expect" -> Expect(BoolLit, FALSE, Single(BoolLit), inner)
      [] OTHER -> Wrap(kind, inner)

Outers == {"none", "const", "var"}

OuterStmts(outer) ==
    CASE outer = "none" -> <<>>
      [] outer = "const" -> <<ConstS("x", "i32", IntLit(One))>>
      [] outer = "var" -> <<VarS("x", "i32", IntLit(One)), Assign("x", IntLit(One))>>

Inners ==
    {<<>>, <<ConstS("y", "i32", IntLit(One))>>, <<ConstS("x", "bool", BoolLit)>>,
     <<VarS("x", "u8", IntLit(One)), Assign("x", IntLit(One))>>}

Probes == {"none", "x as i32", "x as bool", "y as i32", "assign x"}

ProbeStmts(probe) ==
    CASE probe = "none" -> <<>>
      [] probe = "x as i32" -> <<ConstS("z", "i32", Var("x"))>>
      [] probe = "x as bool" -> <<ConstS("z", "bool", Var("x"))>>
      [] probe = "y as i32" -> <<ConstS("z", "i32", Var("y"))>>
      [] probe = "assign x" -> <<Assign("x", IntLit(Two))>>

ShadowProgram(outer, kind, inner, probe) ==
    parse_program({}, <<>>,
        <<Func("main", <<>>, "i8",
               OuterStmts(outer) \o <<ShadowWrap(kind, inner)>> \o ProbeStmts(probe)
               \o <<Return(IntLit(Zero))>>)>>)

InitShadow ==
    /\ \E outer \in Outers, kind \in ShadowKinds, inner \in Inners, probe \in Probes :
          prog = ShadowProgram(outer, kind, inner, probe)
    /\ libc \in BOOLEAN
    /\ phase = "parsed"
    /\ verdict = "none"
    /\ cout = NoC
    /\ rt = NoRt

SpecShadow == InitShadow /\ [][NextSem]_vars

(* what the probe finds when the scope after the block is the scope before *)
(* it: x as outer declared it, and no y                                    *)
ProbeAccepted(outer, probe) ==
    CASE probe = "none" -> TRUE
      [] probe = "x as i32" -> outer # "none"
      [] probe = "x as bool" -> FALSE
      [] probe = "y as i32" -> FALSE
      [] probe = "assign x" -> outer = "var"

(* C25: after a block the scope and the mutability of the enclosing scope  *)
(* are what they were before it: a name declared in the block is           *)
(* undefined, a name shadowed in the block has its outer type and          *)
(* mutability.                                                             *)
C25_BlockLeavesScopeUnchanged ==
    Analyzed =>
        \A outer \in Outers, kind \in ShadowKinds, inner \in Inners, probe \in Probes :
            prog = ShadowProgram(outer, kind, inner, probe)
                => ((verdict = "ok") <=> ProbeAccepted(outer, probe))

C25_Witness ==
    /\ phase = "rejected"
    /\ \E kind \in ShadowKinds :
          prog = ShadowProgram("const", kind,
                     <<VarS("x", "u8", IntLit(One)), Assign("x", IntLit(One))>>, "assign x")

(***************************************************************************)
(* Programs about next in a for loop with a step or a filter:              *)
(*     func main(): i8 { for v in 0 to 3 [by <step>] [where v < 3]         *)
(*                       { <body> }  ret 0; }                              *)
(* the body being empty, a next, a stop, or a next inside an if or inside  *)
(* a while nested in the loop.                                             *)
(***************************************************************************)
NextS == [k |-> "next"]

StopS == [k |-> "stop"]

NextBodies ==
    {<<>>, <<NextS>>, <<If(BoolLit, <<NextS>>, <<>>, FALSE, <<>>)>>,
     <<If(BoolLit, <<>>, <<>>, TRUE, <<NextS>>)>>,
     <<If(BoolLit, <<StopS>>, <<>>, FALSE, <<>>)>>,
     <<While(BoolLit, <<NextS>>)>>}

NextLoop(inclusive, hasStep, step, hasFilter, body) ==
    [For("v", IntLit(Zero), IntLit(Three), body)
        EXCEPT !.inclusive = inclusive, !.hasStep = hasStep,
               !.step = IF hasStep THEN step ELSE IntLit(One),
               !.hasFilter = hasFilter,
               !.filter = Bin("lt", Var("v"), IntLit(Three))]

NextProgram(loop) ==
    parse_program({}, <<>>, <<Func("main", <<>>, "i8", <<loop, Return(IntLit(Zero))>>)>>)

InitNext ==
    /\ \E inclusive \in BOOLEAN, hasStep \in BOOLEAN, step \in {IntLit(One), IntLit(Two)},
          hasFilter \in BOOLEAN, body \in NextBodies :
          /\ hasStep \/ hasFilter
          /\ prog = NextProgram(NextLoop(inclusive, hasStep, step, hasFilter, body))
    /\ libc \in BOOLEAN
    /\ phase = "parsed"
    /\ verdict = "none"
    /\ cout = NoC
    /\ rt = NoRt

SpecNext == InitNext /\ [][NextGen]_vars

IsNextProgram ==
    /\ Len(prog.functions) = 1
    /\ Len(prog.functions[1].body) = 2
    /\ prog.functions[1].body[1].k = "for"

(* the while statement the C of main has for the loop *)
HoistedWhile == CBody("main")[1].body[2]

(* every continue of the statements that goes back to the condition of the *)
(* enclosing loop comes directly after an increment of the variable v      *)
RECURSIVE StepsBeforeContinue(_, _)
StepsBeforeContinue(stmts, v) ==
    \A i \in DOMAIN stmts :
        CASE stmts[i].k = "continue" ->
                i > 1 /\ stmts[i - 1].k = "add_assign" /\ stmts[i - 1].n = v
          [] stmts[i].k = "if" ->
                /\ StepsBeforeContinue(stmts[i].th, v)
                /\ \A j \in DOMAIN stmts[i].eifs : StepsBeforeContinue(stmts[i].eifs[j].body, v)
                /\ StepsBeforeContinue(stmts[i].el, v)
          [] stmts[i].k = "block" -> StepsBeforeContinue(stmts[i].body, v)
          [] OTHER -> TRUE

(* C26: in the while emitted for a for loop with a step or a filter every  *)
(* pass through the body, a pass ended by next included, adds the step to  *)
(* the loop variable before the condition is tested again.                 *)
C26_EveryPassSteps ==
    (phase = "emitted" /\ IsNextProgram) =>
        /\ HoistedWhile.k = "while"
        /\ HoistedWhile.body[Len(HoistedWhile.body)].k = "add_assign"
        /\ StepsBeforeContinue(HoistedWhile.body, "v")

(***************************************************************************)
(* The entry function of the emitted C, over the top-level programs of     *)
(* InitTop: the accepted ones are emitted.                                 *)
(***************************************************************************)
SpecEntry == InitTop /\ [][NextGen]_vars

(* the C functions defined under the name of the program entry *)
EntryDefinitions ==
    {i \in 1..Len(cout.items) : cout.items[i].k = "func" /\ cout.items[i].name = Entry}

(* C27: the C emitted for an accepted program defines exactly one entry    *)
(* function, _start in freestanding mode and main in hosted mode, also     *)
(* when the program has globals and neither a main nor top-level           *)
(* statements.                                                             *)
C27_ExactlyOneEntry ==
    (phase = "emitted" /\ IsTopProgram) => Cardinality(EntryDefinitions) = 1

(***************************************************************************)
(* Programs about the globals the emitter writes with an initializer:      *)
(*     <two or three of>  var r: u8 = 1;   const k: u8 = 1;                *)
(*                        const d: u8 = <e>;   comptime c: u8 = <e>;       *)
(*     func main(): i8 { ret 0; }                                          *)
(* with <e> a literal, r, k, or r + 1 / k + 1.                             *)
(***************************************************************************)
StaticInits ==
    {IntLit(One), Var("r"), Var("k"),
     Bin("add", Var("r"), IntLit(One)), Bin("add", Var("k"), IntLit(One))}

StaticGlobals ==
    {VarS("r", "u8", IntLit(One)), ConstS("k", "u8", IntLit(One))}
    \cup {ConstS("d", "u8", e) : e \in StaticInits}
    \cup {ComptimeS("c", "u8", e) : e \in StaticInits}

InitStatic ==
    /\ \E gs \in [1..2 -> StaticGlobals] \cup [1..3 -> StaticGlobals] :
          prog = Program({}, gs, <<>>, <<MainFn>>)
    /\ libc \in BOOLEAN
    /\ phase = "parsed"
    /\ verdict = "none"
    /\ cout = NoC
    /\ rt = NoRt

SpecStatic == InitStatic /\ [][NextGen]_vars

IsStaticProgram ==
    /\ Len(prog.globals) \in 2..3
    /\ \A i \in DOMAIN prog.globals : prog.globals[i] \in StaticGlobals

(* the variables a C expression reads *)
RECURSIVE CReads(_)
CReads(e) ==
    CASE e.k = "var" -> {e.n}
      [] e.k = "bin" -> CReads(e.l) \cup CReads(e.r)
      [] e.k = "un" -> CReads(e.a)
      [] OTHER -> {}

(* the globals the C declares without an initializer, to assign them when  *)
(* the program starts                                                      *)
CRuntimeGlobals ==
    {cout.items[i].n : i \in {j \in DOMAIN cout.items :
                                 cout.items[j].k = "global" /\ ~cout.items[j].init}}

(* C28: no initializer of a global written as static const T name = expr   *)
(* reads a runtime global; a comptime global of an accepted program does   *)
(* not mention a var global.                                               *)
C28_StaticInitializersAreConstant ==
    (phase = "emitted" /\ IsStaticProgram) =>
        \A i \in DOMAIN cout.items :
            (cout.items[i].k = "global" /\ cout.items[i].init)
                => CReads(cout.items[i].e) \cap CRuntimeGlobals = {}

(***************************************************************************)
(* Programs about the mutation checks and sibling blocks.  Two blocks that *)
(* follow each other, in a function                                        *)
(*     func f(): void { <A> <B> }  func main(): i8 { ret 0; }              *)
(* or as the top-level code of a script, each block one of                 *)
(*     if true { var n: i32 = 1; n = 2; }                                  *)
(*     if true { const n: i32 = 1; }                                       *)
(*     if true { var n: i32 = 1; }          (in a function only)           *)
(* the first with n = x, the second with n = x or n = y.                   *)
(***************************************************************************)
SiblingKinds == {"assigned", "const", "unassigned"}

SiblingBlock(kind, n) ==
    If(BoolLit,
       CASE kind = "assigned" -> <<VarS(n, "i32", IntLit(One)), Assign(n, IntLit(Two))>>
         [] kind = "const" -> <<ConstS(n, "i32", IntLit(One))>>
         [] kind = "unassigned" -> <<VarS(n, "i32", IntLit(One))>>,
       <<>>, FALSE, <<>>)

SiblingProgram(shape, blocks) ==
    IF shape = "func"
    THEN parse_program({}, <<>>, <<Func("f", <<>>, "void", blocks), MainFn>>)
    ELSE parse_program({}, blocks, <<>>)

InitSibling ==
    /\ \E shape \in {"func", "script"}, first \in SiblingKinds,
          second \in SiblingKinds, n \in {"x", "y"}, both \in BOOLEAN :
          /\ shape = "script" => "unassigned" \notin {first, second}
          /\ prog = SiblingProgram(shape,
                        IF both THEN <<SiblingBlock(first, "x"), SiblingBlock(second, n)>>
                        ELSE <<SiblingBlock(first, "x")>>)
    /\ libc \in BOOLEAN
    /\ phase = "parsed"
    /\ verdict = "none"
    /\ cout = NoC
    /\ rt = NoRt

SpecSibling == InitSibling /\ [][NextSem]_vars

(* the blocks of the program, wherever they sit *)
SiblingBlocks ==
    IF Len(prog.functions) = 2 THEN prog.functions[1].body ELSE prog.statements

IsSiblingProgram ==
    /\ Len(SiblingBlocks) \in 1..2
    /\ \A i \in DOMAIN SiblingBlocks :
          \E kind \in SiblingKinds, n \in {"x", "y"} : SiblingBlocks[i] = SiblingBlock(kind, n)

(* the block, taken for itself, passes the mutation checks: every var it   *)
(* declares is assigned in it, and it assigns to no const                  *)
PassesAlone(block) ==
    \E n \in {"x", "y"} : block \in {SiblingBlock("assigned", n), SiblingBlock("const", n)}

(* C29: the mutation checks follow lexical scope.  Blocks that follow each *)
(* other share no binding, so the program passes exactly when each of its  *)
(* blocks passes for itself, whatever names the other block uses.          *)
C29_MutationChecksAreLexical ==
    (Analyzed /\ IsSiblingProgram) =>
        (verdict = "ok" <=> \A i \in DOMAIN SiblingBlocks : PassesAlone(SiblingBlocks[i]))

(***************************************************************************)
(* frontend/parser: the recursive-descent parser over a token sequence.    *)
(* A parser P is the token sequence, the position (counted from 1) and the *)
(* outcome so far: r = "ok", r = "err" once a function has returned Err    *)
(* (the ? operator hands it up unchanged), r = "diverges" once a loop has  *)
(* ended an iteration without error at the position where the iteration    *)
(* began: the parser has no state but its position, so that iteration      *)
(* repeats for ever.                                                       *)
(* Tokens are written by their kind.  The alphabet is                      *)
(*   func id ( ) : type { } ; , when is else -> int while or               *)
(* and the arms of the source for tokens outside of it are left out:       *)
(* parse_and .. parse_unary hand every token of the alphabet to            *)
(* parse_primary.                                                          *)
(***************************************************************************)
Alphabet ==
    {"func", "id", "(", ")", ":", "type", "{", "}", ";", ",",
     "when", "is", "else", "->", "int", "while", "or"}

Parser(tokens) == [tokens |-> tokens, pos |-> 1, r |-> "ok"]

current(P) == P.tokens[P.pos]

advance(P) == IF P.pos < Len(P.tokens) THEN [P EXCEPT !.pos = @ + 1] ELSE P

expect(P, expected) ==
    IF P.r # "ok" THEN P
    ELSE IF current(P) = expected THEN advance(P) ELSE [P EXCEPT !.r = "err"]

(* the end of one iteration of a loop that began at P and has come to Q *)
iteration(P, Q) ==
    IF Q.r = "ok" /\ Q.pos = P.pos THEN [Q EXCEPT !.r = "diverges"] ELSE Q

(* if current is one of the tokens, advance *)
optional(P, tokens) ==
    IF P.r # "ok" THEN P
    ELSE IF current(P) \in tokens THEN advance(P) ELSE P

parse_type(P) ==
    IF P.r # "ok" THEN P
    ELSE IF current(P) \in {"type", "id"} THEN advance(P) ELSE [P EXCEPT !.r = "err"]

(* a when with neither a case nor an else is an error, found when the      *)
(* closing brace has been read; P is the parser after the opening brace    *)
one_case_at_least(P, Q, first) ==
    IF Q.r = "ok" /\ current(P) \notin first THEN [Q EXCEPT !.r = "err"] ELSE Q

RECURSIVE parse_stmt(_), parse_stmt_empty(_), parse_block(_), parse_while(_),
          parse_when(_), when_cases(_), case_body(_), parse_when_pattern(_),
          parse_expr(_), when_expr_cases(_), parse_or(_),
          parse_primary(_), parse_args(_), parse_params(_), after_item(_, _, _)

(* the end of the loop body of a parameter list, of an argument list or of *)
(* the operands of or: past the comma, or the or, the loop goes round;     *)
(* anything else breaks out of it                                          *)
after_item(P, Q, list) ==
    IF Q.r = "ok" /\ current(Q) = (IF list = "operands" THEN "or" ELSE ",")
    THEN CASE list = "args" -> parse_args(iteration(P, advance(Q)))
           [] list = "params" -> parse_params(iteration(P, advance(Q)))
           [] list = "operands" -> parse_or(iteration(P, advance(Q)))
    ELSE Q

(* the loop over the operands of or *)
parse_or(P) ==
    IF P.r # "ok" THEN P ELSE after_item(P, parse_primary(P), "operands")

(* the loop over the arguments of a call *)
parse_args(P) ==
    IF P.r # "ok" THEN P ELSE after_item(P, parse_expr(P), "args")

parse_primary(P) ==
    IF P.r # "ok" THEN P
    ELSE CASE current(P) = "int" -> advance(P)
           [] current(P) = "id" ->
                 IF current(advance(P)) = "("
                 THEN expect(IF current(advance(advance(P))) = ")"
                             THEN advance(advance(P))
                             ELSE parse_args(advance(advance(P))),
                             ")")
                 ELSE advance(P)
           [] current(P) = "(" -> expect(parse_expr(advance(P)), ")")
           [] OTHER -> [P EXCEPT !.r = "err"]

(* the loop over the cases of a when expression: is pattern -> result,     *)
(* with parse_when_pattern of the expression parser being parse_or         *)
when_expr_cases(P) ==
    IF P.r # "ok" THEN P
    ELSE IF current(P) = "is"
         THEN when_expr_cases(iteration(P,
                  optional(parse_or(expect(parse_or(advance(P)), "->")), {",", ";"})))
         ELSE P

(* the when expression once when, the value and the opening brace are read *)
when_expr_block(P) ==
    one_case_at_least(P,
        expect(optional(parse_or(expect(expect(when_expr_cases(P), "else"), "->")),
                        {";"}),
               "}"),
        {"is"})

(* parse_expr, parse_ternary, parse_when_expr and parse_if_expr *)
parse_expr(P) ==
    IF P.r # "ok" THEN P
    ELSE IF current(P) = "when"
         THEN when_expr_block(expect(parse_or(advance(P)), "{"))
         ELSE parse_or(P)

(* while current != RightBrace { parse_stmt()? }: the loop over the        *)
(* statements of a function body and of every block                        *)
parse_block(P) ==
    IF P.r # "ok" THEN P
    ELSE IF current(P) # "}"
         THEN parse_block(iteration(P, parse_stmt(P)))
         ELSE P

parse_while(P) ==
    expect(parse_block(expect(parse_expr(expect(P, "while")), "{")), "}")

(* the enum-variant pattern needs a :: after the identifier; without it    *)
(* the position is restored and the pattern is an expression               *)
parse_when_pattern(P) ==
    IF P.r # "ok" THEN P
    ELSE IF current(P) = "id"
         THEN parse_or([advance(P) EXCEPT !.pos = P.pos])
         ELSE parse_or(P)

(* the body of a case or of the else of a when statement *)
case_body(P) ==
    IF P.r # "ok" THEN P
    ELSE IF current(P) = "->"
         THEN parse_stmt(advance(P))
         ELSE expect(parse_block(expect(P, "{")), "}")

(* the loop over the cases of a when statement and, once no is follows,    *)
(* the else block if there is one                                          *)
when_cases(P) ==
    IF P.r # "ok" THEN P
    ELSE CASE current(P) = "is" ->
                 when_cases(iteration(P, case_body(parse_when_pattern(advance(P)))))
           [] current(P) = "else" -> case_body(advance(P))
           [] OTHER -> P

(* the when statement once when, the value and the opening brace are read *)
when_block(P) ==
    one_case_at_least(P, expect(when_cases(P), "}"), {"is", "else"})

(* an identifier or an integer literal is taken as the value at once, any  *)
(* other token starts an expression                                        *)
parse_when(P) ==
    IF P.r # "ok" \/ current(P) # "when" THEN expect(P, "when")
    ELSE when_block(expect(IF current(advance(P)) \in {"id", "int"}
                           THEN advance(advance(P))
                           ELSE parse_or(advance(P)),
                           "{"))

(* parse_stmt with an arm that takes a lone semicolon for an empty         *)
(* statement and leaves it unread                                          *)
parse_stmt_empty(P) ==
    IF P.r # "ok" THEN P
    ELSE CASE current(P) = "while" -> parse_while(P)
           [] current(P) = "when" -> parse_when(P)
           [] current(P) = ";" -> P
           [] OTHER -> expect(parse_expr(P), ";")

parse_stmt(P) ==
    IF P.r # "ok" THEN P
    ELSE CASE current(P) = "while" -> parse_while(P)
           [] current(P) = "when" -> parse_when(P)
           [] OTHER -> expect(parse_expr(P), ";")

(* the loop over the parameters of a function *)
parse_params(P) ==
    IF P.r # "ok" THEN P
    ELSE after_item(P, parse_type(expect(expect(P, "id"), ":")), "params")

(* the name, the parameter list, the return type, and then the semicolon   *)
(* of a declaration or the body                                            *)
parse_func(P) ==
    LET opened == expect(expect(expect(P, "func"), "id"), "(")
        typed == parse_type(expect(expect(
                     IF opened.r # "ok" \/ current(opened) = ")" THEN opened
                     ELSE parse_params(opened), ")"), ":"))
    IN  IF typed.r # "ok" THEN typed
        ELSE IF current(typed) = ";" THEN advance(typed)
             ELSE expect(parse_block(expect(typed, "{")), "}")

(* the loop of parse_program over the top-level items *)
RECURSIVE parse_items(_)
parse_items(P) ==
    IF P.r # "ok" THEN P
    ELSE IF current(P) # "eof"
         THEN parse_items(iteration(P, IF current(P) = "func" THEN parse_func(P)
                                       ELSE parse_stmt(P)))
         ELSE P

(***************************************************************************)
(* Token sequences for the parser: every sequence of at most MaxTokens     *)
(* tokens of the alphabet, and every prefix of the program                 *)
(*   func id(id: type, id: type): type {                                   *)
(*       when id { is int -> id(id, int); is id { id; } else { id; } }     *)
(*       while id or int { id; }                                           *)
(*   }                                                                     *)
(*   id();                                                                 *)
(* with at most one of its tokens replaced by another; the lexer ends each *)
(* with EOF.                                                               *)
(***************************************************************************)
MaxTokens == 3

Sample ==
    <<"func", "id", "(", "id", ":", "type", ",", "id", ":", "type", ")", ":", "type", "{",
      "when", "id", "{", "is", "int", "->", "id", "(", "id", ",", "int", ")", ";",
      "is", "id", "{", "id", ";", "}", "else", "{", "id", ";", "}", "}",
      "while", "id", "or", "int", "{", "id", ";", "}",
      "}",
      "id", "(", ")", ";">>

InitTokens ==
    /\ \/ \E ts \in SeqsUpTo(Alphabet, MaxTokens) : prog = [tokens |-> ts \o <<"eof">>]
       \/ \E n \in 1..Len(Sample), i \in 1..Len(Sample), t \in Alphabet :
             prog = [tokens |-> SubSeq([Sample EXCEPT ![i] = t], 1, n) \o <<"eof">>]
    /\ libc = FALSE
    /\ phase = "lexed"
    /\ verdict = "none"
    /\ cout = NoC
    /\ rt = NoRt

(* Parser::new(tokens).parse_program() *)
Parse ==
    /\ phase = "lexed"
    /\ "tokens" \in DOMAIN prog
    /\ verdict' = parse_items(Parser(prog.tokens))
    /\ phase' = "parsed_tokens"
    /\ UNCHANGED <<prog, libc, cout, rt>>

NextTokens == Parse

SpecTokens == InitTokens /\ [][NextTokens]_vars

====
